---- MODULE Spec2Model ----
(***************************************************************************)
(* livecore: a low-pause core dumper.  The model follows runLivecore:      *)
(* discovery, soft-dirty driven pre-copy into a staging buffer, the        *)
(* freeze / register capture / map re-scan / dirty delta / unfreeze block, *)
(* and the ELF core serializer.  The target process (its threads, memory,  *)
(* soft-dirty bits and memory map) runs concurrently with the dumper.      *)
(*                                                                         *)
(* Addresses and offsets are byte values.  Page contents are abstracted to *)
(* one integer per page: 0 is an all-zero page, and the target's page at   *)
(* address a holds a + v after v - 1 writes, so contents of different      *)
(* pages never coincide.                                                   *)
(***************************************************************************)
EXTENDS Integers, Sequences, FiniteSets, TLC

\* ------------------------------------------------------------------------
\* Bounds of the model (not program constants).
\* ------------------------------------------------------------------------
\* Highest task id the target may ever use (tid 1 is the thread-group leader).
MaxTid == 2

\* Number of page writes the target performs during one run of the dumper.
MaxWrites == 1

\* Number of changes (mmap, munmap, brk growth) the target makes to its map.
MaxMapChanges == 1

\* Largest value given to the -passes flag.
MaxPassesFlag == 1

\* Number of goroutines that call the buffer manager concurrently, and the
\* number of calls each of them makes.
MaxCallers == 2

MaxCalls == 1

\* ------------------------------------------------------------------------
\* Program constants.
\* ------------------------------------------------------------------------
PageSize == 4096

elfHeaderSize == 64

phdrSize == 56

PT_NOTE == 4

PT_LOAD == 1

PF_X == 1

PF_W == 2

PF_R == 4

\* Size of the staging mapping.  The program maps 512 GiB; the model scales
\* it down to 32 pages, still larger than every offset the model allocates
\* for the target of Init.
mmapSize == 131072

\* The same mapping scaled down to two pages, for a target with a region
\* larger than the whole mapping (more than 512 GiB in the program).
SmallMmapSize == 8192

\* First address of the vsyscall page.  The program uses
\* 0xffffffffff600000; the model scales it down to the model's address range.
VsyscallStart == 61440

VsyscallEnd == VsyscallStart + PageSize

\* Default of the -dirty-thresh flag, in percent.
DefaultDirtyThresh == 5

\* ------------------------------------------------------------------------
\* The target's possible map entries, as the kernel prints them in
\* /proc/<pid>/maps (address range, permission string, path) and
\* /proc/<pid>/smaps (VmFlags).
\* ------------------------------------------------------------------------
HeapEntry ==
    [start |-> 4096, end |-> 12288, perms |-> <<"r", "w", "-", "p">>,
     path |-> "[heap]", flags |-> {"rd", "wr", "mr"}]

HeapGrownEntry ==
    [start |-> 4096, end |-> 16384, perms |-> <<"r", "w", "-", "p">>,
     path |-> "[heap]", flags |-> {"rd", "wr", "mr"}]

DontDumpEntry ==
    [start |-> 20480, end |-> 24576, perms |-> <<"r", "-", "-", "p">>,
     path |-> "", flags |-> {"rd", "mr", "dd"}]

NoAccessEntry ==
    [start |-> 28672, end |-> 32768, perms |-> <<"-", "-", "-", "p">>,
     path |-> "", flags |-> {"mr"}]

AnonEntry ==
    [start |-> 36864, end |-> 40960, perms |-> <<"r", "w", "-", "p">>,
     path |-> "", flags |-> {"rd", "wr"}]

VsyscallEntry ==
    [start |-> VsyscallStart, end |-> VsyscallEnd,
     perms |-> <<"-", "-", "x", "p">>, path |-> "[vsyscall]", flags |-> {"ex"}]

\* The kernel's [vvar] pages: mapped readable in every process, but
\* process_vm_readv on them fails with EFAULT.
VvarEntry ==
    [start |-> 45056, end |-> 49152, perms |-> <<"r", "-", "-", "p">>,
     path |-> "[vvar]", flags |-> {"rd", "mr"}]

InitialMaps == {HeapEntry, DontDumpEntry, NoAccessEntry, VsyscallEntry}

AllEntries == InitialMaps \cup {HeapGrownEntry, AnonEntry}

PagesOf(start, end) == {a \in start .. (end - 1) : a % PageSize = 0}

AllPages == UNION {PagesOf(e.start, e.end) : e \in AllEntries \cup {VvarEntry}}

Tids == 1 .. MaxTid

\* An entry overlaps another when their address ranges intersect.
Overlaps(e, f) == e.start < f.end /\ f.start < e.end

\* The entry a page of the current map belongs to.
EntryAt(m, a) == CHOOSE e \in m : e.start <= a /\ a < e.end

Mapped(m, a) == \E e \in m : e.start <= a /\ a < e.end

\* The target can store to a page when its mapping is writable.
Writable(m, a) == Mapped(m, a) /\ EntryAt(m, a).perms[2] = "w"

\* process_vm_readv succeeds on pages the target itself could read; the
\* vsyscall page, the [vvar] pages and no-access mappings fail with EFAULT.
Readable(m, a) == Mapped(m, a) /\ EntryAt(m, a).perms[1] = "r" /\ EntryAt(m, a).path # "[vvar]"

\* /proc/<pid>/pagemap has entries for user addresses only: a read at the
\* vsyscall page returns no bytes.
PagemapReadable(a) == a < VsyscallStart

VARIABLES
    \* ---- the target process ----
    alive,          \* task ids of the target's live threads
    attached,       \* task ids seized by the dumper (ptrace-attached)
    stopped,        \* task ids held in ptrace-stop
    nextTid,        \* next task id the target will use for a new thread
    maps,           \* the target's current map entries
    mem,            \* page address -> contents
    softDirty,      \* page address -> soft-dirty bit
    budget,         \* writes and map changes the target still performs
    \* ---- the dumper ----
    config,         \* Config: MaxPasses, DirtyThreshold (percent)
    pc,             \* position of runLivecore
    retErr,         \* error returned by runLivecore ("" while running / nil)
    vmas,           \* discovery-time region list
    pass,           \* RunPreCopy: current pass
    vmaIdx,         \* copyAllPages / writeLoadSegments: index in the list
    result,         \* PreCopyResult
    bufferManager,  \* buffer.Manager: allocations, nextOffset, fsBlockSize
    mmapData,       \* staging page index -> contents
    threads,        \* FreezeAllThreads: list returned by ParseThreads
    thrIdx,         \* FreezeAllThreads: index in threads
    newCount,       \* FreezeAllThreads: threads frozen in this pass
    frozen,         \* FreezeAllThreads: map of frozen threads, by tid
    frozenThreads,  \* threads returned by FreezeAllThreads, with registers
    finalVMAs,      \* freeze-time region list
    dirtyPages,     \* delta pass: dirty page address -> region
    coreInfo,       \* elfcore.CoreInfo
    outFile,        \* the output core file
    \* ---- the dumper process around runLivecore ----
    yama,           \* value of /proc/sys/kernel/yama/ptrace_scope
    main,           \* main: position, flags, cleanupYama, signal handler goroutine
    \* ---- concurrent callers of the buffer manager ----
    mu,             \* Manager.mu: 0 when unlocked, else the caller holding it
    callers,        \* caller -> its call of the manager in progress
    \* ---- internal/elfcore: building and writing the notes ----
    noteThreads,    \* CoreInfo.Threads handed to CreateCoreNotes
    auxvData,       \* contents of /proc/<pid>/auxv
    notes,          \* the list of Note values (Name, Type, Data)
    noteIdx,        \* notes created / written so far
    noteSeg,        \* bytes of the note segment written to the file
    noteErr,        \* error returned by the note code ("" for nil)
    segmentCount,   \* WriteCore: len(loadSegments), when the header is written on its own
    workerPool,     \* copy.WorkerPool: channels, workers, and the goroutines that use it
    hist            \* history of the run, for stating the properties

vars == <<alive, attached, stopped, nextTid, maps, mem, softDirty, budget,
          config, pc, retErr, vmas, pass, vmaIdx, result, bufferManager,
          mmapData, threads, thrIdx, newCount, frozen, frozenThreads,
          finalVMAs, dirtyPages, coreInfo, outFile, yama, main, mu, callers,
          noteThreads, auxvData, notes, noteIdx, noteSeg, noteErr, segmentCount, workerPool, hist>>

targetVars == <<alive, attached, stopped, nextTid, maps, mem, softDirty, budget>>

dumperVars == <<config, pc, retErr, vmas, pass, vmaIdx, result, bufferManager,
                mmapData, threads, thrIdx, newCount, frozen, frozenThreads,
                finalVMAs, dirtyPages, coreInfo, outFile, yama, main, mu, callers,
          noteThreads, auxvData, notes, noteIdx, noteSeg, noteErr, segmentCount, workerPool, hist>>

threadVars == <<alive, attached, stopped, nextTid>>

memoryVars == <<maps, mem, softDirty, budget>>

freezeVars == <<threads, thrIdx, newCount, frozen>>

mainVars == <<yama, main>>

\* The data of runLivecore other than its position and the buffer manager.
runData == <<config, retErr, vmas, pass, vmaIdx, result, mmapData, threads, thrIdx,
             newCount, frozen, frozenThreads, finalVMAs, dirtyPages, coreInfo, outFile>>

\* The state of runLivecore other than the buffer manager's bookkeeping.
pipelineVars == <<config, pc, retErr, vmas, pass, vmaIdx, result, mmapData, threads, thrIdx,
                  newCount, frozen, frozenThreads, finalVMAs, dirtyPages, coreInfo, outFile>>

callVars == <<mu, callers>>

noteVars == <<noteThreads, auxvData, notes, noteIdx, noteSeg, noteErr, segmentCount, workerPool>>

\* NewWorkerPool before Start: no worker runs and nothing uses the pool.
PoolIdle == [workers |-> 0, jobs |-> <<>>, results |-> <<>>, jobsClosed |-> FALSE,
             resultsClosed |-> FALSE, worker |-> <<>>, copier |-> <<>>, stop |-> "no"]

\* ------------------------------------------------------------------------
\* internal/proc: reading the memory map.
\* ------------------------------------------------------------------------
RECURSIVE SortByStart(_)
\* The kernel lists map entries in ascending address order.
SortByStart(S) ==
    IF S = {} THEN <<>>
    ELSE LET e == CHOOSE x \in S : \A y \in S : x.start <= y.start
         IN <<e>> \o SortByStart(S \ {e})

\* strings.Contains(path, name) for the paths that occur in the model.
PathContains(path, name) == path = name

\* parseMapsLine: one maps line to a proc.VMA (VmFlags are merged by ParseMaps).
parseMapsLine(line) ==
    [Start   |-> line.start,
     End     |-> line.end,
     Perms   |-> {c \in {"r", "w", "x"} : \E i \in 1 .. Len(line.perms) : line.perms[i] = c},
     Path    |-> line.path,
     VmFlags |-> {},
     IsZero  |-> \/ line.perms = <<"-", "-", "-", "p">>
                 \/ PathContains(line.path, "[vvar]")
                 \/ PathContains(line.path, "[vvar_vclock]")
                 \/ PathContains(line.path, "[vdso]")
                 \/ PathContains(line.path, "[vsyscall]"),
     MemSize |-> line.end - line.start]

\* ParseMaps: every maps line parsed in file order, VmFlags merged from the
\* smaps entry with the same start address.
ParseMaps(m) ==
    LET lines == SortByStart(m)
    IN [i \in 1 .. Len(lines) |->
          [parseMapsLine(lines[i]) EXCEPT !.VmFlags = lines[i].flags]]

\* convertVMAsToCopy: proc.VMA to copy.VMA.
convertVMAsToCopy(vs) ==
    [i \in 1 .. Len(vs) |->
       [Start |-> vs[i].Start, End |-> vs[i].End, Size |-> vs[i].MemSize,
        Perms |-> vs[i].Perms]]

\* convertVMAs: proc.VMA to elfcore.VMA.  VmFlags and IsZero are not among
\* the copied fields, so they take their zero values.
convertVMAs(vs) ==
    [i \in 1 .. Len(vs) |->
       [Start |-> vs[i].Start, End |-> vs[i].End, Perms |-> vs[i].Perms,
        Path |-> vs[i].Path, VmFlags |-> {}, IsZero |-> FALSE,
        MemSize |-> vs[i].MemSize]]

\* ------------------------------------------------------------------------
\* internal/elfcore: which regions are dumped.
\* ------------------------------------------------------------------------
isVsyscallVMA(vma) == vma.Start >= VsyscallStart /\ vma.Start < VsyscallEnd

isReadableVMA(vma) == vma.Perms \cap {"r", "w"} # {}

IsDumpable(vma) ==
    /\ "dd" \notin vma.VmFlags
    /\ ~isVsyscallVMA(vma)
    /\ isReadableVMA(vma)

RECURSIVE SelectSeqDumpable(_)
SelectSeqDumpable(vs) ==
    IF vs = <<>> THEN <<>>
    ELSE (IF IsDumpable(Head(vs)) THEN <<Head(vs)>> ELSE <<>>)
         \o SelectSeqDumpable(Tail(vs))

\* getDumpableVMAs: the regions of the core description that pass IsDumpable.
getDumpableVMAs(info) == SelectSeqDumpable(info.VMAs)

\* ------------------------------------------------------------------------
\* internal/buffer: the staging allocator.
\* ------------------------------------------------------------------------
HasAllocation(bm, vmaStart, vmaSize) ==
    \E a \in bm.allocations : a.Offset = vmaStart /\ a.Size = vmaSize

AllocationOf(bm, vmaStart, vmaSize) ==
    (CHOOSE a \in bm.allocations : a.Offset = vmaStart /\ a.Size = vmaSize).Tmp

\* Variant: the cursor is used as it is.
CursorUnaligned(x, align) == x

\* (x + align - 1) &^ (align - 1) for a power of two align.
AlignUp(x, align) == ((x + align - 1) \div align) * align

\* Variant: every call allocates, also for a key that has an entry.
AllocateAlways(bm, vmaStart, vmaSize) ==
    [bm |-> [bm EXCEPT
               !.allocations = @ \cup {[Offset |-> vmaStart, Size |-> vmaSize,
                                        Tmp |-> AlignUp(bm.nextOffset, bm.fsBlockSize)]},
               !.nextOffset = AlignUp(bm.nextOffset, bm.fsBlockSize) + vmaSize],
     offset |-> AlignUp(bm.nextOffset, bm.fsBlockSize)]

\* GetOffsetForVMA: the offset of the (start, size) key, allocated at the
\* aligned cursor on first use.  Gives the manager after the call and the offset.
GetOffsetForVMA(bm, vmaStart, vmaSize) ==
    IF HasAllocation(bm, vmaStart, vmaSize)
    THEN [bm |-> bm, offset |-> AllocationOf(bm, vmaStart, vmaSize)]
    ELSE LET alignedOffset == AlignUp(bm.nextOffset, bm.fsBlockSize)
         IN [bm |-> [bm EXCEPT
                       !.allocations = @ \cup {[Offset |-> vmaStart, Size |-> vmaSize,
                                                Tmp |-> alignedOffset]},
                       !.nextOffset = alignedOffset + vmaSize],
             offset |-> alignedOffset]

\* GetMmapPointer fails when the offset is at or beyond the mapped size.
GetMmapPointerOK(bm, offset) == offset < bm.mmapSize

\* The goroutines that call the manager.
Callers == 1 .. MaxCallers

\* A caller of the manager that is not inside a call.
IdleCaller == [pc |-> "idle", op |-> "", start |-> 0, size |-> 0, aligned |-> 0,
               ret |-> 0, ok |-> FALSE, calls |-> 0]

\* ------------------------------------------------------------------------
\* Initial state: the dumper has parsed its flags; the target is running.
\* ------------------------------------------------------------------------
NoCoreInfo == [Threads |-> <<>>, VMAs |-> <<>>, Notes |-> <<>>]

NoFile == [created |-> FALSE, ehdr |-> <<>>, phdrs |-> <<>>, notes |-> <<>>,
           data |-> {}, size |-> 0]

\* The state of the target and of the dumper's data before runLivecore
\* starts, for the given sets of the flags -passes and -dirty-thresh
\* (percent), of filesystem block sizes and of staging mapping sizes.
InitStateWith(m, passes, thresholds, blockSizes, mmapSizes) ==
    /\ alive = {1}
    /\ attached = {}
    /\ stopped = {}
    /\ nextTid = 2
    /\ maps = m
    /\ mem = [a \in AllPages |-> a + 1]
    /\ softDirty = [a \in AllPages |-> TRUE]
    /\ budget = [writes |-> MaxWrites, maps |-> MaxMapChanges]
    /\ config \in [MaxPasses : passes, DirtyThreshold : thresholds]
    /\ retErr = ""
    /\ vmas = <<>>
    /\ pass = 0
    /\ vmaIdx = 0
    /\ result = [Passes |-> 0]
    /\ bufferManager \in [allocations : {{}}, nextOffset : {0}, fsBlockSize : blockSizes,
                          mmapSize : mmapSizes]
    /\ mmapData = [i \in 0 .. (bufferManager.mmapSize \div PageSize) - 1 |-> 0]
    /\ mu = 0
    /\ callers = [w \in Callers |-> IdleCaller]
    /\ threads = <<>>
    /\ thrIdx = 0
    /\ newCount = 0
    /\ frozen = {}
    /\ frozenThreads = <<>>
    /\ finalVMAs = <<>>
    /\ dirtyPages = {}
    /\ coreInfo = NoCoreInfo
    /\ outFile = NoFile
    /\ hist = [cause |-> "", lastRead |-> [a \in AllPages |-> 0],
               reported |-> {}, deltaFailed |-> {}, seized |-> {}, detachTried |-> {},
               detachFailed |-> {}, frozeOK |-> FALSE, stablePass |-> FALSE,
               stale |-> {}, freezePasses |-> 0, oob |-> FALSE, order |-> <<>>, reads |-> <<>>,
               first |-> {}, returns |-> {}, yamaSet |-> FALSE, restoreFailed |-> FALSE]

\* The same for a target with the usual map.
InitState(passes, thresholds, blockSizes, mmapSizes) ==
    InitStateWith(InitialMaps, passes, thresholds, blockSizes, mmapSizes)

\* main has found ptrace_scope at 0 and has called runLivecore: no cleanup
\* closure and no signal handler exist.
StartedRun ==
    /\ pc = "Discovery"
    /\ yama = 0
    /\ main = [pc |-> "run", fixYama |-> FALSE, cleanupYama |-> "nil", original |-> 0,
               handler |-> "none", signals |-> 0, exitedAt |-> ""]

\* No note has been created or written.
NotesIdle ==
    /\ noteThreads = <<>>
    /\ auxvData = <<>>
    /\ notes = <<>>
    /\ noteIdx = 0
    /\ noteSeg = <<>>
    /\ noteErr = ""
    /\ segmentCount = 0
    /\ workerPool = PoolIdle

\* The dumper started with the default threshold.
Init == InitState(1 .. MaxPassesFlag, {DefaultDirtyThresh}, {8192}, {mmapSize}) /\ StartedRun /\ NotesIdle

\* ------------------------------------------------------------------------
\* The target process.
\* ------------------------------------------------------------------------
\* The dumper reads the target up to and including the building of the
\* notes; the model stops following the target after that.
TargetObserved ==
    pc \notin {"NewELFWriter", "WriteELFHeader", "WriteProgramHeaders", "WriteNoteSegment",
               "WriteLoadSegment", "Done"}

\* A thread executes when it is alive and not held in ptrace-stop.
Running(t) == t \in alive /\ t \notin stopped /\ TargetObserved

\* A running thread stores to a writable page: the kernel sets its soft-dirty bit.
TargetWrite(t, a) ==
    /\ Running(t)
    /\ budget.writes > 0
    /\ Writable(maps, a)
    /\ mem' = [mem EXCEPT ![a] = @ + 1]
    /\ softDirty' = [softDirty EXCEPT ![a] = TRUE]
    /\ budget' = [budget EXCEPT !.writes = @ - 1]
    /\ UNCHANGED <<threadVars, maps, dumperVars>>

\* A running thread creates a thread.
TargetSpawn(t) ==
    /\ Running(t)
    /\ nextTid <= MaxTid
    /\ alive' = alive \cup {nextTid}
    /\ nextTid' = nextTid + 1
    /\ UNCHANGED <<attached, stopped, memoryVars, dumperVars>>

\* A running thread other than the leader exits.
TargetThreadExit(t) ==
    /\ Running(t)
    /\ t # 1
    /\ alive' = alive \ {t}
    /\ attached' = attached \ {t}
    /\ UNCHANGED <<stopped, nextTid, memoryVars, dumperVars>>

\* The whole target is killed from outside (SIGKILL): stopped threads die too.
TargetKilled ==
    /\ alive # {}
    /\ TargetObserved
    /\ alive' = {}
    /\ attached' = {}
    /\ stopped' = {}
    /\ UNCHANGED <<nextTid, memoryVars, dumperVars>>

\* A running thread maps a new region.  The kernel marks new and expanded
\* regions soft-dirty.
TargetMmap(t, e) ==
    /\ Running(t)
    /\ budget.maps > 0
    /\ e \in {AnonEntry} \ maps
    /\ \A f \in maps : ~Overlaps(e, f)
    /\ maps' = maps \cup {e}
    /\ softDirty' = [a \in AllPages |-> IF a \in PagesOf(e.start, e.end) THEN TRUE ELSE softDirty[a]]
    /\ budget' = [budget EXCEPT !.maps = @ - 1]
    /\ UNCHANGED <<threadVars, mem, dumperVars>>

\* A running thread unmaps a region.
TargetMunmap(t, e) ==
    /\ Running(t)
    /\ budget.maps > 0
    /\ e \in maps \cap {HeapEntry, HeapGrownEntry, AnonEntry}
    /\ maps' = maps \ {e}
    /\ budget' = [budget EXCEPT !.maps = @ - 1]
    /\ UNCHANGED <<threadVars, mem, softDirty, dumperVars>>

\* A running thread grows the heap (brk).
TargetGrowHeap(t) ==
    /\ Running(t)
    /\ budget.maps > 0
    /\ HeapEntry \in maps
    /\ maps' = (maps \ {HeapEntry}) \cup {HeapGrownEntry}
    /\ softDirty' = [a \in AllPages |->
                       IF a \in PagesOf(HeapGrownEntry.start, HeapGrownEntry.end)
                       THEN TRUE ELSE softDirty[a]]
    /\ budget' = [budget EXCEPT !.maps = @ - 1]
    /\ UNCHANGED <<threadVars, mem, dumperVars>>


\* ------------------------------------------------------------------------
\* The dumper.  Every system call on the target fails when the target is
\* gone; beyond that a call may fail for reasons outside the model (EPERM,
\* EIO, ENOMEM, ...), which the actions draw as "ok" or not.
\* ------------------------------------------------------------------------
TargetGone == alive = {}

\* runLivecore returns err.
Return(err) == pc' = "Done" /\ retErr' = err

\* The first failure of the run is remembered in the history.
Fail(kind) == hist' = [hist EXCEPT !.cause = IF @ = "" THEN kind ELSE @]

\* Phase 1: NewBufferManager, ParseMaps, ParseThreads, GetAuxv.
Discovery ==
    /\ pc = "Discovery"
    /\ \E ok \in BOOLEAN :
         /\ TargetGone => ~ok
         /\ IF ok
            THEN /\ vmas' = ParseMaps(maps)
                 /\ pc' = "ClearSoftDirty"
                 /\ UNCHANGED <<retErr, hist>>
            ELSE /\ Return("discovery")
                 /\ Fail("discovery")
                 /\ UNCHANGED vmas
    /\ UNCHANGED <<targetVars, mainVars, callVars, noteVars, config, pass, vmaIdx, result, bufferManager, mmapData,
                   freezeVars, frozenThreads, finalVMAs, dirtyPages, coreInfo, outFile>>

\* PageMap.ClearSoftDirty: write "4" to clear_refs; at the start of
\* RunPreCopy and between two passes.
ClearSoftDirty ==
    /\ pc = "ClearSoftDirty"
    /\ \E ok \in BOOLEAN :
         /\ TargetGone => ~ok
         /\ IF ok
            THEN /\ softDirty' = [a \in AllPages |-> FALSE]
                 /\ pass' = pass + 1
                 /\ vmaIdx' = 1
                 /\ pc' = IF pass + 1 <= config.MaxPasses THEN "CopyVMA" ELSE "FreezeEnum"
                 /\ UNCHANGED <<retErr, hist>>
            ELSE /\ Return("pre-copy")
                 /\ Fail("pre-copy")
                 /\ UNCHANGED <<softDirty, pass, vmaIdx>>
    /\ UNCHANGED <<threadVars, maps, mem, budget, mainVars, callVars, noteVars, config, vmas, result, bufferManager,
                   mmapData, freezeVars, frozenThreads, finalVMAs, dirtyPages,
                   coreInfo, outFile>>

RECURSIVE ReadablePrefix(_, _, _)
\* process_vm_readv transfers the pages from start up to the first page it
\* cannot read.
ReadablePrefix(m, start, end) ==
    IF start >= end \/ ~Readable(m, start) THEN {}
    ELSE {start} \cup ReadablePrefix(m, start + PageSize, end)

\* CopyMemoryToMmap: the staging pages after reading [srcAddr, srcAddr + size)
\* of the target to the staging offset.
CopyMemoryToMmap(data, m, memory, srcAddr, size, offset) ==
    LET got == ReadablePrefix(m, srcAddr, srcAddr + size)
    IN [i \in DOMAIN data |->
          IF \E a \in got : i = (offset + (a - srcAddr)) \div PageSize
          THEN memory[CHOOSE a \in got : i = (offset + (a - srcAddr)) \div PageSize]
          ELSE data[i]]

\* The copy of [srcAddr, srcAddr + size) to the staging offset has a page
\* whose place is at or beyond the end of the mapping.  process_vm_readv
\* then writes into whatever the dumper has mapped behind the staging
\* mapping, or stops at the end of the mapping when nothing is mapped there.
WritesBeyond(bm, m, srcAddr, size, offset) ==
    \E a \in ReadablePrefix(m, srcAddr, srcAddr + size) : offset + (a - srcAddr) >= bm.mmapSize

\* The read fails with EFAULT when not even the first page can be read.
Unreadable(m, srcAddr) == ~Readable(m, srcAddr)

\* The error of the process_vm_readv call of CopyMemoryToMmap: EPERM or
\* ESRCH when the call is refused, EFAULT when the first page cannot be
\* read, none otherwise.
ReadErrno(m, srcAddr, ok) ==
    IF ~ok THEN "EPERM" ELSE IF Unreadable(m, srcAddr) THEN "EFAULT" ELSE ""

\* Variant: every read error ends the pre-copy.
SkipsNoReadError(err) == FALSE

\* copyVMA returns nil for the errors of unreadable memory.
SkipsReadError(err) == err \in {"ENOENT", "EFAULT"}

NoteRead(h, m, memory, srcAddr, size) ==
    [h EXCEPT !.lastRead = [a \in AllPages |->
        IF a \in ReadablePrefix(m, srcAddr, srcAddr + size) THEN memory[a] ELSE @[a]]]

\* copyAllPages / copyVMA: one region of the discovery list is read in one
\* call into its staging range.
CopyVMA ==
    /\ pc = "CopyVMA"
    /\ vmaIdx <= Len(vmas)
    /\ LET vma == convertVMAsToCopy(vmas)[vmaIdx]
           start == (vma.Start \div PageSize) * PageSize
           end == AlignUp(vma.End, PageSize)
           got == GetOffsetForVMA(bufferManager, vma.Start, vma.End - vma.Start)
       IN \E ok \in BOOLEAN, beyond \in BOOLEAN :
            /\ TargetGone => ~ok
            /\ beyond => ok /\ WritesBeyond(got.bm, maps, start, end - start, got.offset)
            /\ bufferManager' = got.bm
            /\ IF ~GetMmapPointerOK(got.bm, got.offset)
               THEN /\ Return("pre-copy") /\ Fail("staging")
                    /\ UNCHANGED <<mmapData, vmaIdx>>
               ELSE IF ReadErrno(maps, start, ok) # "" /\ ~SkipsReadError(ReadErrno(maps, start, ok))
               THEN /\ Return("pre-copy")
                    /\ Fail(IF ReadErrno(maps, start, ok) = "EFAULT" THEN "unreadable" ELSE "pre-copy")
                    /\ UNCHANGED <<mmapData, vmaIdx>>
               ELSE IF ReadErrno(maps, start, ok) # ""
               THEN /\ vmaIdx' = vmaIdx + 1
                    /\ UNCHANGED <<mmapData, pc, retErr, hist>>
               ELSE /\ mmapData' = CopyMemoryToMmap(mmapData, maps, mem, start, end - start, got.offset)
                    /\ hist' = [NoteRead(hist, maps, mem, start, end - start) EXCEPT
                                  !.oob = @ \/ beyond]
                    /\ vmaIdx' = vmaIdx + 1
                    /\ UNCHANGED <<pc, retErr>>
    /\ UNCHANGED <<targetVars, mainVars, callVars, noteVars, config, vmas, pass, result, freezeVars, frozenThreads,
                   finalVMAs, dirtyPages, coreInfo, outFile>>

\* Variant: every dirty page of the address space is reported under the region.
ScanWholeAddressSpace(vma, m, sd) == {a \in AllPages : Mapped(m, a) /\ sd[a]}

\* scanVMAForDirtyPages: the addresses of the region's pages whose pagemap
\* entry has bit 55 set; a read that returns no bytes gives no pages.
scanVMAForDirtyPages(vma, m, sd) ==
    LET start == (vma.Start \div PageSize) * PageSize
        end == AlignUp(vma.End, PageSize)
    IN IF ~PagemapReadable(start) THEN {}
       ELSE {a \in PagesOf(start, end) : Mapped(m, a) /\ sd[a]}

\* GetDirtyPages: the dirty addresses of all regions of the list.
GetDirtyPages(vs, m, sd) ==
    UNION {scanVMAForDirtyPages(vs[i], m, sd) : i \in 1 .. Len(vs)}

RECURSIVE TotalPages(_)
TotalPages(vs) ==
    IF vs = <<>> THEN 0
    ELSE (Head(vs).End - Head(vs).Start + PageSize - 1) \div PageSize + TotalPages(Tail(vs))

\* Variant: the loop also stops when the ratio equals the threshold.
DirtyRatioAtMost(dirtyCount, totalPages, threshold) ==
    IF totalPages = 0 THEN 0 <= threshold
    ELSE dirtyCount * 100 <= threshold * totalPages

\* CalculateDirtyRatio and its comparison with the threshold (given in
\* percent): dirtyCount / totalPages < threshold / 100, and 0 when there
\* are no pages.
DirtyRatioBelow(dirtyCount, totalPages, threshold) ==
    IF totalPages = 0 THEN 0 < threshold
    ELSE dirtyCount * 100 < threshold * totalPages

\* The pass count RunPreCopy reports.
ReportedPasses(maxPasses, executed) == maxPasses

\* Variant: the soft-dirty bits are reset after every pass.
ResetAfterEveryPass(p, maxPasses) == TRUE

\* RunPreCopy resets the soft-dirty bits after a pass only when another
\* pass follows.
ResetAfterPass(p, maxPasses) == p < maxPasses

\* Variant: the ratio is measured as soon as one region of the pass is copied.
ReturnedAfterFirstRegion(idx, vs) == idx > 1

\* copyAllPages returns nil when its loop has gone over every region.
copyAllPagesReturned(idx, vs) == idx > Len(vs)

\* RunPreCopy after copyAllPages of a pass: measure the dirty ratio, then
\* stop (below threshold, or last pass) or go on with a reset.
DirtyRatio ==
    /\ pc = "CopyVMA"
    /\ copyAllPagesReturned(vmaIdx, vmas)
    /\ \E ok \in BOOLEAN :
         /\ TargetGone => ~ok
         /\ IF ~ok
            THEN /\ Return("pre-copy") /\ Fail("pre-copy")
                 /\ UNCHANGED result
            ELSE LET vs == convertVMAsToCopy(vmas)
                     dirtyCount == Cardinality(GetDirtyPages(vs, maps, softDirty))
                 IN /\ pc' = IF DirtyRatioBelow(dirtyCount, TotalPages(vs), config.DirtyThreshold)
                             THEN "FreezeEnum"
                             ELSE IF ResetAfterPass(pass, config.MaxPasses)
                             THEN "ClearSoftDirty"
                             ELSE "FreezeEnum"
                    /\ result' = [Passes |-> ReportedPasses(config.MaxPasses, pass)]
                    /\ UNCHANGED <<retErr, hist>>
    /\ UNCHANGED <<targetVars, mainVars, callVars, noteVars, config, vmas, pass, vmaIdx, bufferManager, mmapData,
                   freezeVars, frozenThreads, finalVMAs, dirtyPages, coreInfo, outFile>>

\* ------------------------------------------------------------------------
\* Phase 3: freeze, registers, map re-scan, dirty delta, unfreeze.
\* ------------------------------------------------------------------------
RECURSIVE SortTids(_)
SortTids(S) ==
    IF S = {} THEN <<>>
    ELSE LET t == CHOOSE x \in S : \A y \in S : x <= y
         IN <<t>> \o SortTids(S \ {t})

\* ParseThreads: the task directory lists the live threads.
ParseThreads(live) == [i \in 1 .. Cardinality(live) |-> [Tid |-> SortTids(live)[i], Registers |-> "nil"]]

TidsOf(ts) == {ts[i].Tid : i \in 1 .. Len(ts)}

\* UnfreezeThread: PTRACE_DETACH.  ESRCH (the task is gone) is not an error;
\* a detach in failed returns an error and leaves the task attached.
UnfreezeThread(tid, live, failed) ==
    IF tid \notin live THEN "" ELSE IF tid \in failed THEN "detach" ELSE ""

\* The tasks a round of detaches releases.
Detached(tids, live, failed) == {t \in tids : t \in live /\ t \notin failed}

\* Variant: lastErr is assigned the result of every detach.
OverwriteLastErr(lastErr, err) == err

\* UnfreezeAllThreads, loop body: lastErr is assigned only when the detach failed.
KeepLastErr(lastErr, err) == IF err # "" THEN err ELSE lastErr

RECURSIVE UnfreezeAllThreads(_, _, _, _)
\* UnfreezeAllThreads: detach every thread of the list, return the last error.
UnfreezeAllThreads(ts, live, failed, lastErr) ==
    IF ts = <<>> THEN lastErr
    ELSE UnfreezeAllThreads(Tail(ts), live, failed,
                            KeepLastErr(lastErr, UnfreezeThread(Head(ts).Tid, live, failed)))

\* Variant: the loop over the list ends at the first detach that fails.
StopAtFailedDetach(ts, live, failed) ==
    {ts[i].Tid : i \in {j \in 1 .. Len(ts) :
                          \A k \in 1 .. j - 1 : UnfreezeThread(ts[k].Tid, live, failed) = ""}}

\* UnfreezeAllThreads, the range loop: the threads UnfreezeThread is called
\* for.  The loop has no break and no return; an error only sets lastErr.
DetachAttempts(ts, live, failed) == {ts[i].Tid : i \in 1 .. Len(ts)}

\* FreezeAllThreads, top of the loop: enumerate the task directory.
FreezeEnum ==
    /\ pc = "FreezeEnum"
    /\ \E ok \in BOOLEAN :
         /\ TargetGone => ~ok
         /\ IF ok
            THEN /\ threads' = ParseThreads(alive)
                 /\ thrIdx' = 1
                 /\ newCount' = 0
                 /\ pc' = "FreezeThread"
                 /\ hist' = [hist EXCEPT !.freezePasses = IF @ <= MaxTid THEN @ + 1 ELSE @]
                 /\ UNCHANGED retErr
            ELSE /\ Return("freeze")
                 /\ Fail("enumerate")
                 /\ UNCHANGED <<threads, thrIdx, newCount>>
    /\ UNCHANGED <<targetVars, mainVars, callVars, noteVars, config, vmas, pass, vmaIdx, result, bufferManager, mmapData,
                   frozen, frozenThreads, finalVMAs, dirtyPages, coreInfo, outFile>>

\* Variant: no enumerated thread is skipped.
NeverFrozen(frozenMap, tid) == FALSE

\* FreezeAllThreads skips an enumerated thread that is in the frozen map.
AlreadyFrozen(frozenMap, tid) == tid \in frozenMap

\* Variant: a failed FreezeThread detaches nothing.
RollbackNone(frozenMap) == {}

\* The threads FreezeAllThreads detaches when a FreezeThread fails: the keys
\* of the frozen map.
RollbackTids(frozenMap) == frozenMap

\* FreezeAllThreads, loop body for one enumerated thread: skip it when
\* already frozen, else FreezeThread (PTRACE_SEIZE, then PTRACE_INTERRUPT).
\* When FreezeThread fails the threads of the frozen map are detached and
\* the freeze returns the error.
FreezeThread ==
    /\ pc = "FreezeThread"
    /\ thrIdx <= Len(threads)
    /\ LET tid == threads[thrIdx].Tid
       IN IF AlreadyFrozen(frozen, tid)
          THEN /\ thrIdx' = thrIdx + 1
               /\ UNCHANGED <<threadVars, newCount, frozen, pc, retErr, hist>>
          ELSE \E outcome \in {"ok", "seize", "interrupt"} :
                 /\ tid \notin alive => outcome = "seize"
                 /\ IF outcome = "ok"
                    THEN /\ attached' = attached \cup {tid}
                         /\ stopped' = stopped \cup {tid}
                         /\ frozen' = frozen \cup {tid}
                         /\ newCount' = newCount + 1
                         /\ thrIdx' = thrIdx + 1
                         /\ hist' = [hist EXCEPT !.seized = @ \cup {tid}]
                         /\ UNCHANGED <<pc, retErr>>
                    ELSE \E failed \in SUBSET (RollbackTids(frozen) \cap alive) :
                           LET seized == IF outcome = "interrupt" THEN {tid} ELSE {}
                               released == Detached(RollbackTids(frozen), alive, failed)
                           IN /\ attached' = (attached \cup seized) \ released
                              /\ stopped' = stopped \ released
                              /\ Return("freeze")
                              /\ hist' = [hist EXCEPT
                                     !.cause = IF tid \notin alive THEN "vanished" ELSE outcome,
                                     !.seized = @ \cup seized,
                                     !.detachTried = RollbackTids(frozen),
                                     !.detachFailed = failed]
                              /\ UNCHANGED <<frozen, newCount, thrIdx>>
    /\ UNCHANGED <<alive, nextTid, memoryVars, mainVars, callVars, noteVars, config, vmas, pass, vmaIdx, result,
                   bufferManager, mmapData, threads, frozenThreads, finalVMAs,
                   dirtyPages, coreInfo, outFile>>

\* Variant: the loop stops after its first pass.
AnyPass(n) == TRUE

\* FreezeAllThreads stops looping after a pass that froze no new thread.
StablePass(n) == n = 0

\* FreezeAllThreads, end of a pass: return the frozen threads sorted by tid
\* or enumerate again.
FreezePassEnd ==
    /\ pc = "FreezeThread"
    /\ thrIdx > Len(threads)
    /\ IF StablePass(newCount)
       THEN /\ frozenThreads' = ParseThreads(frozen)
            /\ pc' = "CollectRegisters"
            /\ hist' = [hist EXCEPT !.frozeOK = TRUE, !.stablePass = (newCount = 0)]
       ELSE /\ pc' = "FreezeEnum"
            /\ UNCHANGED <<frozenThreads, hist>>
    /\ UNCHANGED <<targetVars, mainVars, callVars, noteVars, config, retErr, vmas, pass, vmaIdx, result, bufferManager,
                   mmapData, freezeVars, finalVMAs, dirtyPages, coreInfo, outFile>>

\* GetThreadRegisters for a frozen thread: the 216-byte register block, or
\* 216 zero bytes when the thread is gone (ESRCH).
GetThreadRegisters(tid, live) == IF tid \in live THEN "gregs" ELSE "zero216"

\* CollectThreadRegisters: read the registers of every frozen thread, in
\* order; the read of thread number failAt (0: none) fails with an error
\* other than ESRCH and ends the collection.
CollectRegisters ==
    /\ pc = "CollectRegisters"
    /\ \E failAt \in 0 .. Len(frozenThreads) :
         /\ failAt > 0 => frozenThreads[failAt].Tid \in alive
         /\ frozenThreads' = [i \in 1 .. Len(frozenThreads) |->
                IF failAt = 0 \/ i < failAt
                THEN [frozenThreads[i] EXCEPT !.Registers = GetThreadRegisters(frozenThreads[i].Tid, alive)]
                ELSE frozenThreads[i]]
         /\ IF failAt = 0
            THEN /\ pc' = "Rescan"
                 /\ UNCHANGED <<retErr, hist>>
            ELSE /\ pc' = "UnfreezeOnError"
                 /\ retErr' = "registers"
                 /\ Fail("registers")
    /\ UNCHANGED <<targetVars, mainVars, callVars, noteVars, config, vmas, pass, vmaIdx, result, bufferManager, mmapData,
                   freezeVars, finalVMAs, dirtyPages, coreInfo, outFile>>

\* Re-scan of the maps, authoritative at stop time.
Rescan ==
    /\ pc = "Rescan"
    /\ \E ok \in BOOLEAN :
         /\ TargetGone => ~ok
         /\ IF ok
            THEN /\ finalVMAs' = ParseMaps(maps)
                 /\ pc' = "DeltaScan"
                 /\ UNCHANGED <<retErr, hist>>
            ELSE /\ pc' = "UnfreezeOnError"
                 /\ retErr' = "maps"
                 /\ Fail("maps")
                 /\ UNCHANGED finalVMAs
    /\ UNCHANGED <<targetVars, mainVars, callVars, noteVars, config, vmas, pass, vmaIdx, result, bufferManager, mmapData,
                   freezeVars, frozenThreads, dirtyPages, coreInfo, outFile>>

\* GetDirtyPages as copyRemainingDirtyPages uses it: every dirty address
\* with the region it was found under.
GetDirtyPagesWithVMA(vs, m, sd) ==
    {d \in [addr : AllPages, vma : {vs[i] : i \in 1 .. Len(vs)}] :
        d.addr \in scanVMAForDirtyPages(d.vma, m, sd)}

\* copyRemainingDirtyPages, first half: scan the soft-dirty bits of the
\* freeze-time regions.
DeltaScan ==
    /\ pc = "DeltaScan"
    /\ \E ok \in BOOLEAN :
         /\ TargetGone => ~ok
         /\ IF ok
            THEN LET found == GetDirtyPagesWithVMA(convertVMAsToCopy(finalVMAs), maps, softDirty)
                 IN /\ dirtyPages' = found
                    /\ hist' = [hist EXCEPT
                           !.reported = {[addr |-> d.addr, start |-> d.vma.Start,
                                          size |-> d.vma.Size] : d \in found},
                           !.stale = {a \in AllPages : Readable(maps, a) /\ hist.lastRead[a] # mem[a]}]
                    /\ pc' = IF found = {} THEN "Unfreeze" ELSE "DeltaCopy"
                    /\ UNCHANGED retErr
            ELSE /\ pc' = "UnfreezeOnError"
                 /\ retErr' = "delta"
                 /\ Fail("delta")
                 /\ UNCHANGED dirtyPages
    /\ UNCHANGED <<targetVars, mainVars, callVars, noteVars, config, vmas, pass, vmaIdx, result, bufferManager, mmapData,
                   freezeVars, frozenThreads, finalVMAs, coreInfo, outFile>>

\* copyDirtyPage: where in the staging file the page of a region goes.
DirtyPageOffset(vmaOffset, pageAddr, vmaStart) == vmaOffset + (pageAddr - vmaStart)

\* Variant: the loop ends at the first page whose copy fails.
StopAtFailedPage(pages, d, read) == IF read THEN pages \ {d} ELSE {}

\* The pages the loop of copyRemainingDirtyPages still has to visit after the
\* page d, whether or not its copy succeeded.
StillToCopy(pages, d, read) == pages \ {d}

\* copyRemainingDirtyPages, loop body: copyDirtyPage for one dirty page (in
\* map iteration order).  A failed read is logged and the loop goes on.
DeltaCopy ==
    /\ pc = "DeltaCopy"
    /\ \E d \in dirtyPages, ok \in BOOLEAN, beyond \in BOOLEAN :
         LET got == GetOffsetForVMA(bufferManager, d.vma.Start, d.vma.Size)
             off == DirtyPageOffset(got.offset, d.addr, d.vma.Start)
             read == ok /\ ~TargetGone /\ GetMmapPointerOK(got.bm, got.offset) /\ Readable(maps, d.addr)
         IN /\ TargetGone => ~ok
            /\ beyond => read /\ WritesBeyond(got.bm, maps, d.addr, PageSize, off)
            /\ bufferManager' = got.bm
            /\ dirtyPages' = StillToCopy(dirtyPages, d, read)
            /\ IF read
               THEN /\ mmapData' = CopyMemoryToMmap(mmapData, maps, mem, d.addr, PageSize, off)
                    /\ hist' = [NoteRead(hist, maps, mem, d.addr, PageSize) EXCEPT
                                  !.oob = @ \/ beyond]
               ELSE /\ hist' = [hist EXCEPT !.deltaFailed = @ \cup {d.addr}]
                    /\ UNCHANGED mmapData
            /\ pc' = IF StillToCopy(dirtyPages, d, read) = {} THEN "Unfreeze" ELSE "DeltaCopy"
    /\ UNCHANGED <<targetVars, mainVars, callVars, noteVars, config, retErr, vmas, pass, vmaIdx, result, freezeVars,
                   frozenThreads, finalVMAs, coreInfo, outFile>>

\* Variant: an error of the unfreeze replaces the error of the failed step.
UnfreezeErrorFirst(err, unfreezeErr) == IF unfreezeErr # "" THEN unfreezeErr ELSE err

\* The error runLivecore returns after a failure inside the stop window:
\* the result of the unfreeze is not looked at.
ErrorAfterUnfreeze(err, unfreezeErr) == err

\* Failure path of the stop window: proc.UnfreezeAllThreads(frozenThreads),
\* then return the error of the failed step.
UnfreezeOnError ==
    /\ pc = "UnfreezeOnError"
    /\ \E failed \in SUBSET (TidsOf(frozenThreads) \cap alive) :
         LET tried == DetachAttempts(frozenThreads, alive, failed)
             released == Detached(tried, alive, failed)
             unfreezeErr == UnfreezeAllThreads(frozenThreads, alive, failed, "")
         IN /\ attached' = attached \ released
            /\ stopped' = stopped \ released
            /\ Return(ErrorAfterUnfreeze(retErr, unfreezeErr))
            /\ hist' = [hist EXCEPT !.detachTried = tried,
                                    !.detachFailed = failed]
    /\ UNCHANGED <<alive, nextTid, memoryVars, mainVars, callVars, noteVars, config, vmas, pass, vmaIdx, result,
                   bufferManager, mmapData, freezeVars, frozenThreads, finalVMAs,
                   dirtyPages, coreInfo, outFile>>

\* End of the stop window: unfreeze, and go on to the serializer only when
\* UnfreezeAllThreads returned no error.
Unfreeze ==
    /\ pc = "Unfreeze"
    /\ \E failed \in SUBSET (TidsOf(frozenThreads) \cap alive) :
         LET tried == DetachAttempts(frozenThreads, alive, failed)
             released == Detached(tried, alive, failed)
             unfreezeErr == UnfreezeAllThreads(frozenThreads, alive, failed, "")
         IN /\ attached' = attached \ released
            /\ stopped' = stopped \ released
            /\ IF unfreezeErr # ""
               THEN /\ Return("unfreeze")
                    /\ hist' = [hist EXCEPT !.detachTried = tried,
                                            !.detachFailed = failed,
                                            !.cause = IF @ = "" THEN "unfreeze" ELSE @]
               ELSE /\ pc' = "CreateNotes"
                    /\ hist' = [hist EXCEPT !.detachTried = tried]
                    /\ UNCHANGED retErr
    /\ UNCHANGED <<alive, nextTid, memoryVars, mainVars, callVars, noteVars, config, vmas, pass, vmaIdx, result,
                   bufferManager, mmapData, freezeVars, frozenThreads, finalVMAs,
                   dirtyPages, coreInfo, outFile>>

\* ------------------------------------------------------------------------
\* Phase 4: the ELF core serializer.
\* ------------------------------------------------------------------------
\* convertThreads: proc.Thread to elfcore.Thread.
convertThreads(ts) == [i \in 1 .. Len(ts) |-> [Tid |-> ts[i].Tid, Registers |-> ts[i].Registers]]

CoreName == <<"C", "O", "R", "E">>

\* The target's auxiliary vector, as read from /proc/<pid>/auxv.
TargetAuxv == [len |-> 320]

\* Variant: NT_PRSTATUS for the first thread only.
CreateCoreNotesFirstThread(ts) ==
    [i \in 1 .. Len(SubSeq(ts, 1, 1)) |-> [Name |-> CoreName, Type |-> 1, DataLen |-> 352, Tid |-> ts[i].Tid]]
    \o [i \in 1 .. Len(ts) |-> [Name |-> CoreName, Type |-> 2, DataLen |-> 512, Tid |-> 0]]
    \o [i \in 1 .. Len(ts) |-> [Name |-> CoreName, Type |-> 514, DataLen |-> 1024, Tid |-> 0]]
    \o <<[Name |-> CoreName, Type |-> 3, DataLen |-> 136, Tid |-> 0]>>
    \o <<[Name |-> CoreName, Type |-> 6, DataLen |-> TargetAuxv.len, Tid |-> 0]>>

\* CreateCoreNotes: NT_PRSTATUS, NT_FPREGSET and NT_X86_XSTATE per thread,
\* then NT_PRPSINFO and NT_AUXV (the file table is empty, so no NT_FILE).
\* A note's data is given by its length and, for NT_PRSTATUS, the thread.
CreateCoreNotes(ts) ==
    [i \in 1 .. Len(ts) |-> [Name |-> CoreName, Type |-> 1, DataLen |-> 352, Tid |-> ts[i].Tid]]
    \o [i \in 1 .. Len(ts) |-> [Name |-> CoreName, Type |-> 2, DataLen |-> 512, Tid |-> 0]]
    \o [i \in 1 .. Len(ts) |-> [Name |-> CoreName, Type |-> 514, DataLen |-> 1024, Tid |-> 0]]
    \o <<[Name |-> CoreName, Type |-> 3, DataLen |-> 136, Tid |-> 0]>>
    \o <<[Name |-> CoreName, Type |-> 6, DataLen |-> TargetAuxv.len, Tid |-> 0]>>

\* Build the core description and its notes (reads stat and auxv of the target).
CreateNotes ==
    /\ pc = "CreateNotes"
    /\ \E ok \in BOOLEAN :
         /\ TargetGone => ~ok
         /\ IF ok
            THEN /\ coreInfo' = [Threads |-> convertThreads(frozenThreads),
                                 VMAs |-> convertVMAs(finalVMAs),
                                 Notes |-> CreateCoreNotes(convertThreads(frozenThreads))]
                 /\ pc' = "NewELFWriter"
                 /\ UNCHANGED <<retErr, hist>>
            ELSE /\ Return("notes")
                 /\ Fail("notes")
                 /\ UNCHANGED coreInfo
    /\ UNCHANGED <<targetVars, mainVars, callVars, noteVars, config, vmas, pass, vmaIdx, result, bufferManager, mmapData,
                   freezeVars, frozenThreads, finalVMAs, dirtyPages, outFile>>

\* NewELFWriter: create (truncate) the output file.
NewELFWriter ==
    /\ pc = "NewELFWriter"
    /\ \E ok \in BOOLEAN :
         IF ok
         THEN /\ outFile' = [NoFile EXCEPT !.created = TRUE]
              /\ pc' = "WriteELFHeader"
              /\ UNCHANGED <<retErr, hist>>
         ELSE /\ Return("writer")
              /\ Fail("writer")
              /\ UNCHANGED outFile
    /\ UNCHANGED <<targetVars, mainVars, callVars, noteVars, config, vmas, pass, vmaIdx, result, bufferManager, mmapData,
                   freezeVars, frozenThreads, finalVMAs, dirtyPages, coreInfo>>

padUpTo4Bytes(n) == ((n + 3) \div 4) * 4

\* Variant: the data is counted without its padding.
NoteSizeUnpaddedData(note) == 12 + padUpTo4Bytes(Len(note.Name) + 1) + note.DataLen

\* calculateNoteSize: header, padded name with terminator, padded data.
calculateNoteSize(note) == 12 + padUpTo4Bytes(Len(note.Name) + 1) + padUpTo4Bytes(note.DataLen)

RECURSIVE SumNoteSizes(_)
SumNoteSizes(ns) == IF ns = <<>> THEN 0 ELSE calculateNoteSize(Head(ns)) + SumNoteSizes(Tail(ns))

\* Variant: the note segment placed as if PT_NOTE had no program header.
NoteLayoutWithoutNotePhdr(info) ==
    [noteSize |-> SumNoteSizes(info.Notes),
     noteOffset |-> elfHeaderSize + Len(getDumpableVMAs(info)) * phdrSize]

\* calculateNoteLayout: size and file offset of the note segment.
calculateNoteLayout(info) ==
    [noteSize |-> SumNoteSizes(info.Notes),
     noteOffset |-> elfHeaderSize + (Len(getDumpableVMAs(info)) + 1) * phdrSize]

RECURSIVE LayOut(_, _)
LayOut(vs, offset) ==
    IF vs = <<>> THEN <<>>
    ELSE <<[VMA |-> Head(vs), Offset |-> offset]>> \o LayOut(Tail(vs), offset + Head(vs).MemSize)

\* calculateLoadSegments: the dumpable regions, each at the end of the one before.
calculateLoadSegments(info, noteEnd) == LayOut(getDumpableVMAs(info), noteEnd)

LoadSegments(info) ==
    calculateLoadSegments(info, calculateNoteLayout(info).noteOffset + calculateNoteLayout(info).noteSize)

\* createNotePhdr.
createNotePhdr(offset, size) ==
    [type |-> PT_NOTE, flags |-> PF_R, offset |-> offset, vaddr |-> 0, paddr |-> 0,
     filesz |-> size, memsz |-> size, align |-> 0]

\* createLoadPhdr.
createLoadPhdr(segment) ==
    [type |-> PT_LOAD,
     flags |-> PF_R + (IF "w" \in segment.VMA.Perms THEN PF_W ELSE 0)
                    + (IF "x" \in segment.VMA.Perms THEN PF_X ELSE 0),
     offset |-> segment.Offset, vaddr |-> segment.VMA.Start, paddr |-> segment.VMA.Start,
     filesz |-> segment.VMA.MemSize, memsz |-> segment.VMA.MemSize, align |-> 4096]

Max(a, b) == IF a > b THEN a ELSE b

\* A failed write ends WriteCore with an error.
WriteFailed ==
    /\ Return("write")
    /\ Fail("write")
    /\ UNCHANGED <<outFile, vmaIdx, mmapData>>

\* writeELFHeader(phnum): the fields of the 64-byte header; the count of
\* program headers is stored with PutUint16(uint16(phnum)).
writeELFHeader(phnum) ==
    [type |-> 4, phoff |-> 64, ehsize |-> 64, phentsize |-> 56, phnum |-> phnum % 65536]

\* WriteCore, first step: writeELFHeader(len(loadSegments) + 1) at offset 0.
WriteELFHeader ==
    /\ pc = "WriteELFHeader"
    /\ \E ok \in BOOLEAN :
         IF ok
         THEN /\ outFile' = [outFile EXCEPT
                    !.ehdr = <<writeELFHeader(Len(LoadSegments(coreInfo)) + 1)>>,
                    !.size = Max(@, elfHeaderSize)]
              /\ pc' = "WriteProgramHeaders"
              /\ UNCHANGED <<retErr, hist, vmaIdx, mmapData>>
         ELSE WriteFailed
    /\ UNCHANGED <<targetVars, mainVars, callVars, noteVars, config, vmas, pass, result, bufferManager,
                   freezeVars, frozenThreads, finalVMAs, dirtyPages, coreInfo>>

\* writeProgramHeaders: PT_NOTE first, then one PT_LOAD per load segment.
WriteProgramHeaders ==
    /\ pc = "WriteProgramHeaders"
    /\ \E ok \in BOOLEAN :
         IF ok
         THEN LET layout == calculateNoteLayout(coreInfo)
                  segs == LoadSegments(coreInfo)
              IN /\ outFile' = [outFile EXCEPT
                       !.phdrs = <<createNotePhdr(layout.noteOffset, layout.noteSize)>>
                                 \o [i \in 1 .. Len(segs) |-> createLoadPhdr(segs[i])],
                       !.size = Max(@, elfHeaderSize + (Len(segs) + 1) * phdrSize)]
                 /\ pc' = "WriteNoteSegment"
                 /\ UNCHANGED <<retErr, hist, vmaIdx, mmapData>>
         ELSE WriteFailed
    /\ UNCHANGED <<targetVars, mainVars, callVars, noteVars, config, vmas, pass, result, bufferManager,
                   freezeVars, frozenThreads, finalVMAs, dirtyPages, coreInfo>>

RECURSIVE PlaceNotes(_, _)
\* writeNote for each note: the note's bytes at the running offset.
PlaceNotes(ns, offset) ==
    IF ns = <<>> THEN <<>>
    ELSE <<[offset |-> offset, note |-> Head(ns),
            written |-> 12 + padUpTo4Bytes(Len(Head(ns).Name) + 1)
                          + (IF Head(ns).DataLen > 0 THEN padUpTo4Bytes(Head(ns).DataLen) ELSE 0)]>>
         \o PlaceNotes(Tail(ns), offset + 12 + padUpTo4Bytes(Len(Head(ns).Name) + 1)
                          + (IF Head(ns).DataLen > 0 THEN padUpTo4Bytes(Head(ns).DataLen) ELSE 0))

\* writeNoteSegment.
WriteNoteSegment ==
    /\ pc = "WriteNoteSegment"
    /\ \E ok \in BOOLEAN :
         IF ok
         THEN LET layout == calculateNoteLayout(coreInfo)
                  placed == PlaceNotes(coreInfo.Notes, layout.noteOffset)
              IN /\ outFile' = [outFile EXCEPT
                       !.notes = placed,
                       !.size = IF placed = <<>> THEN @
                                ELSE Max(@, placed[Len(placed)].offset + placed[Len(placed)].written)]
                 /\ pc' = "WriteLoadSegment"
                 /\ vmaIdx' = 1
                 /\ UNCHANGED <<retErr, hist, mmapData>>
         ELSE WriteFailed
    /\ UNCHANGED <<targetVars, mainVars, callVars, noteVars, config, vmas, pass, result, bufferManager,
                   freezeVars, frozenThreads, finalVMAs, dirtyPages, coreInfo>>

\* Manager.WriteDataTo: the bytes of the staging range [tmpOffset,
\* tmpOffset + size) written to the output file at fileOffset, page by page.
WriteDataTo(data, fileOffset, tmpOffset, size) ==
    {[off |-> fileOffset + k * PageSize, val |-> data[(tmpOffset \div PageSize) + k]] :
        k \in 0 .. (size \div PageSize) - 1}

\* Variant: the hole reaches from the offset to the end of the staging file.
PunchToEnd(data, tmpOffset, size) ==
    [i \in DOMAIN data |-> IF tmpOffset <= i * PageSize THEN 0 ELSE data[i]]

\* Manager.PunchHole: the staging pages of the range read as zero afterwards.
PunchHole(data, tmpOffset, size) ==
    [i \in DOMAIN data |->
        IF tmpOffset <= i * PageSize /\ (i + 1) * PageSize <= tmpOffset + size THEN 0 ELSE data[i]]

\* Variant: the lookup of the serializer allocates a range for a key that
\* has no entry.
AllocateOnLookup(bm, vmaStart, vmaSize) ==
    [bm |-> GetOffsetForVMA(bm, vmaStart, vmaSize).bm, ok |-> TRUE,
     tmpOffset |-> GetOffsetForVMA(bm, vmaStart, vmaSize).offset]

\* Manager.GetExistingOffsetForVMA: the offset of the key's entry and ok, or
\* ok = false; the manager is left as it is.
GetExistingOffsetForVMA(bm, vmaStart, vmaSize) ==
    [bm |-> bm, ok |-> HasAllocation(bm, vmaStart, vmaSize),
     tmpOffset |-> IF HasAllocation(bm, vmaStart, vmaSize)
                   THEN AllocationOf(bm, vmaStart, vmaSize) ELSE 0]

\* writeLoadSegments / writeLoadSegment: one load segment.  A zero region
\* only extends the file; any other region must have a staging entry
\* (looked up before anything is written), is written from the staging
\* mapping, and its staging range is hole-punched (best effort).
WriteLoadSegment ==
    /\ pc = "WriteLoadSegment"
    /\ LET segs == LoadSegments(coreInfo)
       IN IF vmaIdx > Len(segs)
          THEN /\ Return("")
               /\ UNCHANGED <<outFile, vmaIdx, mmapData, hist, bufferManager>>
          ELSE LET segment == segs[vmaIdx]
                   size == segment.VMA.MemSize
                   got == GetExistingOffsetForVMA(bufferManager, segment.VMA.Start, size)
               IN \E ok \in BOOLEAN, punched \in BOOLEAN :
                    IF segment.VMA.IsZero
                    THEN IF ~ok THEN WriteFailed /\ UNCHANGED bufferManager
                         ELSE /\ outFile' = [outFile EXCEPT !.size = segment.Offset + size]
                              /\ vmaIdx' = vmaIdx + 1
                              /\ UNCHANGED <<pc, retErr, hist, mmapData, bufferManager>>
                    ELSE IF ~got.ok
                    THEN /\ Return("write")
                         /\ Fail("uncopied")
                         /\ bufferManager' = got.bm
                         /\ UNCHANGED <<outFile, vmaIdx, mmapData>>
                    ELSE IF ~ok THEN WriteFailed /\ bufferManager' = got.bm
                    ELSE /\ outFile' = [outFile EXCEPT
                               !.data = {x \in @ : \A y \in WriteDataTo(mmapData, segment.Offset, got.tmpOffset, size) :
                                                      x.off # y.off}
                                        \cup WriteDataTo(mmapData, segment.Offset, got.tmpOffset, size),
                               !.size = Max(@, segment.Offset + size)]
                         /\ mmapData' = IF punched THEN PunchHole(mmapData, got.tmpOffset, size)
                                        ELSE mmapData
                         /\ bufferManager' = got.bm
                         /\ vmaIdx' = vmaIdx + 1
                         /\ UNCHANGED <<pc, retErr, hist>>
    /\ UNCHANGED <<targetVars, mainVars, callVars, noteVars, config, vmas, pass, result,
                   freezeVars, frozenThreads, finalVMAs, dirtyPages, coreInfo>>

\* ------------------------------------------------------------------------
\* The system: the dumper and the target interleave.
\* ------------------------------------------------------------------------
Next ==
    \/ Discovery
    \/ ClearSoftDirty
    \/ CopyVMA
    \/ DirtyRatio
    \/ FreezeEnum
    \/ FreezeThread
    \/ FreezePassEnd
    \/ CollectRegisters
    \/ Rescan
    \/ DeltaScan
    \/ DeltaCopy
    \/ UnfreezeOnError
    \/ Unfreeze
    \/ CreateNotes
    \/ NewELFWriter
    \/ WriteELFHeader
    \/ WriteProgramHeaders
    \/ WriteNoteSegment
    \/ WriteLoadSegment
    \/ \E t \in Tids, a \in AllPages : TargetWrite(t, a)
    \/ \E t \in Tids : TargetSpawn(t)
    \/ \E t \in Tids : TargetThreadExit(t)
    \/ TargetKilled
    \/ \E t \in Tids, e \in AllEntries : TargetMmap(t, e)
    \/ \E t \in Tids, e \in AllEntries : TargetMunmap(t, e)
    \/ \E t \in Tids : TargetGrowHeap(t)

Spec == Init /\ [][Next]_vars

\* The dumper up to the return of FreezeAllThreads.
FreezeLoop ==
    \/ Discovery
    \/ ClearSoftDirty
    \/ CopyVMA
    \/ DirtyRatio
    \/ FreezeEnum
    \/ FreezeThread
    \/ FreezePassEnd

\* The freeze loop against a target whose threads come and go.
FreezeNext ==
    \/ Discovery
    \/ ClearSoftDirty
    \/ CopyVMA
    \/ DirtyRatio
    \/ FreezeEnum
    \/ FreezeThread
    \/ FreezePassEnd
    \/ \E t \in Tids : TargetSpawn(t)
    \/ \E t \in Tids : TargetThreadExit(t)
    \/ TargetKilled

\* The dumper is a running process: it keeps taking steps until
\* FreezeAllThreads returns.
FreezeSpec == Init /\ [][FreezeNext]_vars /\ WF_vars(FreezeLoop)

\* ------------------------------------------------------------------------
\* main: the ptrace_scope fix-up, the signal handler and the exit.
\* ------------------------------------------------------------------------
\* The dumper process ends (os.Exit, return of main, or death by a signal):
\* all its goroutines stop where they are and the kernel detaches every
\* task it had seized, which lets the task run again.
ProcessExit ==
    /\ main' = [main EXCEPT !.pc = "exited", !.exitedAt = pc]
    /\ pc' = "Exited"
    /\ attached' = {}
    /\ stopped' = {}
    /\ UNCHANGED <<alive, nextTid, memoryVars, yama, runData, bufferManager, callVars, noteVars, hist>>

\* main up to the decision on ptrace_scope: checkYamaSysctl, then
\* runLivecore (value 0), fixYamaSysctl (--fix-yama) or exit with
\* instructions.
MainCheckYama ==
    /\ main.pc = "checkYama"
    /\ \E ok \in BOOLEAN :
         IF ok /\ yama = 0
         THEN /\ main' = [main EXCEPT !.pc = "run"]
              /\ pc' = "Discovery"
              /\ UNCHANGED <<targetVars, yama, runData, bufferManager, callVars, noteVars, hist>>
         ELSE IF ok /\ main.fixYama
         THEN /\ main' = [main EXCEPT !.pc = "fixYama"]
              /\ UNCHANGED <<targetVars, yama, pipelineVars, bufferManager, callVars, noteVars, hist>>
         ELSE ProcessExit

\* fixYamaSysctl: remember the value, write 0, return the closure that
\* writes the value back.
MainFixYama ==
    /\ main.pc = "fixYama"
    /\ \E ok \in BOOLEAN :
         IF ~ok THEN ProcessExit
         ELSE /\ IF yama = 0
                 THEN /\ main' = [main EXCEPT !.pc = "notify", !.cleanupYama = "noop"]
                      /\ UNCHANGED <<yama, hist>>
                 ELSE /\ main' = [main EXCEPT !.pc = "notify", !.cleanupYama = "restore",
                                              !.original = yama]
                      /\ yama' = 0
                      /\ hist' = [hist EXCEPT !.yamaSet = TRUE]
              /\ UNCHANGED <<targetVars, pipelineVars, bufferManager, callVars, noteVars>>

\* signal.Notify and the start of the handler goroutine, then the call of
\* runLivecore.
MainNotify ==
    /\ main.pc = "notify"
    /\ main' = [main EXCEPT !.pc = "run", !.handler = "waiting"]
    /\ pc' = "Discovery"
    /\ UNCHANGED <<targetVars, yama, runData, bufferManager, callVars, noteVars, hist>>

\* cleanupYama(): setYamaSysctl(originalValue); a failure is only logged.
RestoreYama(ok) ==
    IF main.cleanupYama = "restore"
    THEN /\ yama' = IF ok THEN main.original ELSE yama
         /\ hist' = [hist EXCEPT !.restoreFailed = @ \/ ~ok]
    ELSE UNCHANGED <<yama, hist>>

\* main after runLivecore returned: run the cleanup closure if there is one.
MainCleanup ==
    /\ main.pc = "run"
    /\ pc = "Done"
    /\ \E ok \in BOOLEAN : RestoreYama(ok)
    /\ main' = [main EXCEPT !.pc = "exit"]
    /\ UNCHANGED <<targetVars, pipelineVars, bufferManager, callVars, noteVars>>

\* main prints the error, if any, and the process ends.
MainExit ==
    /\ main.pc = "exit"
    /\ ProcessExit

\* SIGINT or SIGTERM is delivered to the dumper.  With the handler
\* installed the signal wakes the handler goroutine (or stays in the
\* channel when the handler is already running); without it the default
\* action ends the process.
Signal ==
    /\ main.pc # "exited"
    /\ main.signals > 0
    /\ IF main.handler = "none"
       THEN /\ main' = [main EXCEPT !.pc = "exited", !.exitedAt = pc, !.signals = @ - 1]
            /\ pc' = "Exited"
            /\ attached' = {}
            /\ stopped' = {}
            /\ UNCHANGED <<alive, nextTid, memoryVars, yama, runData, bufferManager, callVars, noteVars, hist>>
       ELSE /\ main' = [main EXCEPT !.signals = @ - 1,
                                    !.handler = IF @ = "waiting" THEN "cleanup" ELSE @]
            /\ UNCHANGED <<targetVars, yama, pipelineVars, bufferManager, callVars, noteVars, hist>>

\* The handler goroutine after <-sigChan: cleanupYama().
HandlerCleanup ==
    /\ main.pc # "exited"
    /\ main.handler = "cleanup"
    /\ \E ok \in BOOLEAN : RestoreYama(ok)
    /\ main' = [main EXCEPT !.handler = "exit"]
    /\ UNCHANGED <<targetVars, pipelineVars, bufferManager, callVars, noteVars>>

\* The handler goroutine: os.Exit(1).
HandlerExit ==
    /\ main.pc # "exited"
    /\ main.handler = "exit"
    /\ ProcessExit

\* The (start, size) keys of the regions of the model's target.
StagingKeys == {[start |-> e.start, size |-> e.end - e.start] : e \in AllEntries}

\* One call of GetOffsetForVMA by the pipeline's goroutine; the history
\* keeps the offset the first call with a key returned.
Allocate(k) ==
    LET got == GetOffsetForVMA(bufferManager, k.start, k.size)
    IN /\ bufferManager' = got.bm
       /\ hist' = [hist EXCEPT !.first =
              IF \E f \in @ : f.start = k.start /\ f.size = k.size THEN @
              ELSE @ \cup {[start |-> k.start, size |-> k.size, offset |-> got.offset]}]
       /\ UNCHANGED <<targetVars, mainVars, callVars, noteVars, pipelineVars>>

\* The buffer manager on its own: calls with the keys of the target's
\* regions in every order, for block sizes of one and two pages.
OffsetInit ==
    InitState(1 .. MaxPassesFlag, {DefaultDirtyThresh}, {4096, 8192}, {mmapSize}) /\ StartedRun /\ NotesIdle

OffsetNext == \E k \in StagingKeys : Allocate(k)

OffsetSpec == OffsetInit /\ [][OffsetNext]_vars

\* A goroutine starts a call of GetOffsetForVMA ("get") or of
\* GetExistingOffsetForVMA ("existing") with the key k.
Call(w, op, k) ==
    /\ callers[w].pc = "idle"
    /\ callers[w].calls < MaxCalls
    /\ callers' = [callers EXCEPT ![w] = [pc |-> "lock", op |-> op, start |-> k.start,
                                          size |-> k.size, aligned |-> 0, ret |-> 0,
                                          ok |-> FALSE, calls |-> @.calls + 1]]
    /\ UNCHANGED <<targetVars, mainVars, pipelineVars, noteVars, mu, bufferManager, hist>>

\* Variant: Lock returns at once, whoever holds the mutex.
LockNeverWaits(holder) == TRUE

\* sync.Mutex.Lock returns only while the mutex is unlocked.
MutexFree(holder) == holder = 0

\* bm.mu.Lock().  The history keeps the order in which the calls of
\* GetOffsetForVMA got the mutex.
Lock(w) ==
    /\ callers[w].pc = "lock"
    /\ MutexFree(mu)
    /\ mu' = w
    /\ callers' = [callers EXCEPT ![w].pc = "lookup"]
    /\ hist' = [hist EXCEPT !.order =
           IF callers[w].op = "get"
           THEN Append(@, [start |-> callers[w].start, size |-> callers[w].size])
           ELSE @]
    /\ UNCHANGED <<targetVars, mainVars, pipelineVars, noteVars, bufferManager>>

\* The map lookup of both functions.  GetExistingOffsetForVMA returns its
\* result; GetOffsetForVMA returns the entry found or goes on to allocate.
Lookup(w) ==
    /\ callers[w].pc = "lookup"
    /\ callers' = [callers EXCEPT ![w] =
           IF HasAllocation(bufferManager, @.start, @.size)
           THEN [@ EXCEPT !.pc = "unlock", !.ok = TRUE,
                          !.ret = AllocationOf(bufferManager, callers[w].start, callers[w].size)]
           ELSE IF @.op = "existing"
           THEN [@ EXCEPT !.pc = "unlock"]
           ELSE [@ EXCEPT !.pc = "align"]]
    /\ UNCHANGED <<targetVars, mainVars, pipelineVars, noteVars, mu, bufferManager, hist>>

\* alignedOffset := (bm.nextOffset + blockSize - 1) &^ (blockSize - 1).
Align(w) ==
    /\ callers[w].pc = "align"
    /\ callers' = [callers EXCEPT ![w].pc = "store",
                                  ![w].aligned = AlignUp(bufferManager.nextOffset,
                                                         bufferManager.fsBlockSize)]
    /\ UNCHANGED <<targetVars, mainVars, pipelineVars, noteVars, mu, bufferManager, hist>>

\* bm.allocations[key] = alignedOffset.
Store(w) ==
    /\ callers[w].pc = "store"
    /\ bufferManager' = [bufferManager EXCEPT !.allocations =
           {a \in @ : ~(a.Offset = callers[w].start /\ a.Size = callers[w].size)}
           \cup {[Offset |-> callers[w].start, Size |-> callers[w].size,
                   Tmp |-> callers[w].aligned]}]
    /\ callers' = [callers EXCEPT ![w].pc = "bump"]
    /\ UNCHANGED <<targetVars, mainVars, pipelineVars, noteVars, mu, hist>>

\* bm.nextOffset = alignedOffset + vmaSize; return alignedOffset.
Bump(w) ==
    /\ callers[w].pc = "bump"
    /\ bufferManager' = [bufferManager EXCEPT !.nextOffset = callers[w].aligned + callers[w].size]
    /\ callers' = [callers EXCEPT ![w].pc = "unlock", ![w].ok = TRUE,
                                  ![w].ret = callers[w].aligned]
    /\ UNCHANGED <<targetVars, mainVars, pipelineVars, noteVars, mu, hist>>

\* The deferred bm.mu.Unlock() and the return to the caller; the history
\* keeps what the call returned.
Unlock(w) ==
    /\ callers[w].pc = "unlock"
    /\ mu' = 0
    /\ callers' = [callers EXCEPT ![w].pc = "idle"]
    /\ hist' = [hist EXCEPT !.returns = @ \cup
           {[op |-> callers[w].op, start |-> callers[w].start, size |-> callers[w].size,
             offset |-> callers[w].ret, ok |-> callers[w].ok]}]
    /\ UNCHANGED <<targetVars, mainVars, pipelineVars, noteVars, bufferManager>>

\* The keys the concurrent callers use: the heap before and after it grew
\* (same start, different size) and one other region.
CallerKeys ==
    {[start |-> e.start, size |-> e.end - e.start] : e \in {HeapEntry, HeapGrownEntry, DontDumpEntry}}

\* The buffer manager under concurrent callers.
ManagerNext ==
    \/ \E w \in Callers, op \in {"get", "existing"}, k \in CallerKeys : Call(w, op, k)
    \/ \E w \in Callers : Lock(w)
    \/ \E w \in Callers : Lookup(w)
    \/ \E w \in Callers : Align(w)
    \/ \E w \in Callers : Store(w)
    \/ \E w \in Callers : Bump(w)
    \/ \E w \in Callers : Unlock(w)

ManagerSpec == Init /\ [][ManagerNext]_vars

\* The dumper from the start of main, with ptrace_scope at 0 or 1, with and
\* without --fix-yama, and one termination signal sent to it at any time.
\* The target has one thread and writes to its memory.
MainInit ==
    /\ InitState(1 .. MaxPassesFlag, {DefaultDirtyThresh}, {8192}, {mmapSize})
    /\ NotesIdle
    /\ pc = "Main"
    /\ yama \in {0, 1}
    /\ main \in [pc : {"checkYama"}, fixYama : BOOLEAN, cleanupYama : {"nil"}, original : {0},
                  handler : {"none"}, signals : {1}, exitedAt : {""}]

MainNext ==
    \/ MainCheckYama
    \/ MainFixYama
    \/ MainNotify
    \/ MainCleanup
    \/ MainExit
    \/ Signal
    \/ HandlerCleanup
    \/ HandlerExit
    \/ Discovery
    \/ ClearSoftDirty
    \/ CopyVMA
    \/ DirtyRatio
    \/ FreezeEnum
    \/ FreezeThread
    \/ FreezePassEnd
    \/ CollectRegisters
    \/ Rescan
    \/ DeltaScan
    \/ DeltaCopy
    \/ UnfreezeOnError
    \/ Unfreeze
    \/ CreateNotes
    \/ NewELFWriter
    \/ WriteELFHeader
    \/ WriteProgramHeaders
    \/ WriteNoteSegment
    \/ WriteLoadSegment
    \/ \E t \in Tids, a \in AllPages : TargetWrite(t, a)

MainSpec == MainInit /\ [][MainNext]_vars

\* The pre-copy of a target with a region larger than the staging mapping.
SmallStagingInit ==
    InitState(1 .. MaxPassesFlag, {DefaultDirtyThresh}, {4096, 8192}, {SmallMmapSize}) /\ StartedRun /\ NotesIdle

\* The pre-copy phase on its own, for every pass limit up to one more than
\* the default bound and thresholds of 0, 5 and 50 percent.
PreCopyInit ==
    InitState(1 .. MaxPassesFlag + 1, {0, DefaultDirtyThresh, 50}, {8192}, {mmapSize}) /\ StartedRun /\ NotesIdle

PreCopyNext ==
    \/ Discovery
    \/ ClearSoftDirty
    \/ CopyVMA
    \/ DirtyRatio
    \/ \E t \in Tids, a \in AllPages : TargetWrite(t, a)
    \/ \E t \in Tids : TargetGrowHeap(t)

PreCopySpec == PreCopyInit /\ [][PreCopyNext]_vars

\* With the small mapping the first pass ends at the first region whose
\* offset is beyond the mapping, so the ratio is never measured.
SmallStagingNext ==
    \/ Discovery
    \/ ClearSoftDirty
    \/ CopyVMA
    \/ \E t \in Tids, a \in AllPages : TargetWrite(t, a)
    \/ \E t \in Tids : TargetGrowHeap(t)

SmallStagingSpec == SmallStagingInit /\ [][SmallStagingNext]_vars

\* ------------------------------------------------------------------------
\* Properties.
\* ------------------------------------------------------------------------
\* The stop window: from the return of FreezeAllThreads to the start of the unfreeze.
StopWindow == pc \in {"CollectRegisters", "Rescan", "DeltaScan", "DeltaCopy", "Unfreeze", "UnfreezeOnError"}

Succeeded == pc = "Done" /\ retErr = ""

\* The regions of the freeze-time list that the discovery list holds under
\* the same (start, size).
SameKeyRegions ==
    {v \in {finalVMAs[i] : i \in 1 .. Len(finalVMAs)} :
        \E j \in 1 .. Len(vmas) : vmas[j].Start = v.Start /\ vmas[j].MemSize = v.MemSize}

\* The staging contents of the page at address a of region v.
Staged(v, a) == mmapData[(AllocationOf(bufferManager, v.Start, v.MemSize) + (a - v.Start)) \div PageSize]

\* C1: no byte of the output file (header, program headers, notes, load
\* data) is written while a target thread is attached: whenever the output
\* file changes, the unfreeze has been run over all frozen threads and no
\* thread is held by ptrace.
C1_UnfreezeBeforeSerializer ==
    [][outFile' # outFile =>
          /\ attached = {}
          /\ attached' = {}
          /\ hist.detachTried = TidsOf(frozenThreads)]_vars

C1_Witness == outFile.data # {} /\ Cardinality(hist.seized) = 2 /\ attached = {}

\* C2: on every exit path no thread of the target is left attached or
\* stopped by the dumper.  Stated for the runs in which no detach call of
\* the dumper failed, so that a thread left behind is one the dumper did
\* not try to release.
C2_NoThreadLeftAttached ==
    (pc = "Done" /\ hist.detachFailed = {}) => (attached = {} /\ stopped = {})

C5_ErrorInStopWindowUnfreezes ==
    (pc = "Done" /\ hist.cause \in {"registers", "maps", "delta"}) =>
        /\ hist.detachTried = hist.seized
        /\ attached \subseteq hist.detachFailed
        /\ retErr = hist.cause

C5_Witness ==
    /\ pc = "Done"
    /\ hist.cause \in {"registers", "maps", "delta"}
    /\ hist.detachFailed # {}
    /\ retErr = hist.cause

\* C6: when a PTRACE_SEIZE fails for a task that exists, a detach has been
\* issued for every thread seized so far in the call before the freeze
\* returns its error, and no thread stays attached (other than one whose
\* detach call itself failed).
C6_SeizeFailureRollsBack ==
    (pc = "Done" /\ hist.cause = "seize") =>
        /\ hist.seized \subseteq hist.detachTried
        /\ attached \subseteq hist.detachFailed

C6_Witness ==
    /\ pc = "Done"
    /\ hist.cause = "seize"
    /\ hist.seized # {}
    /\ hist.detachFailed = {}
    /\ attached = {}

\* C7: the freeze loop terminates although running threads of the target
\* keep creating threads; it returns only after a pass that froze no new
\* thread, and the threads it returns are exactly the threads seized.
C7_FreezeLoopTerminates ==
    /\ [](hist.frozeOK => (hist.stablePass /\ TidsOf(frozenThreads) = hist.seized))
    /\ (pc = "FreezeEnum" ~> pc \notin {"FreezeEnum", "FreezeThread"})

C7_Witness ==
    /\ hist.frozeOK
    /\ hist.freezePasses >= 3
    /\ Cardinality(TidsOf(frozenThreads)) = 2

\* C8: a task id that vanishes between enumeration and seize does not make
\* the freeze fail.
C8_VanishedTaskSkipped == ~(pc = "Done" /\ hist.cause = "vanished")

\* C9: after a successful run, for every page reported dirty in the delta
\* pass whose region has a PT_LOAD entry, the page-sized slice of the output
\* at (PT_LOAD offset + page address - region start) holds the bytes most
\* recently read from the target at that address.
C9_DirtyPageSliceIsLastRead ==
    Succeeded =>
        \A r \in hist.reported : \A i \in 1 .. Len(outFile.phdrs) :
            (outFile.phdrs[i].type = PT_LOAD /\ outFile.phdrs[i].vaddr = r.start) =>
                \E x \in outFile.data :
                    /\ x.off = outFile.phdrs[i].offset + (r.addr - r.start)
                    /\ x.val = hist.lastRead[r.addr]

\* The PT_LOAD entries of the output, in file order.
LoadPhdrs == SelectSeq(outFile.phdrs, LAMBDA h : h.type = PT_LOAD)

\* C10: after a successful run the PT_LOAD entries are, in re-scan order,
\* exactly the dumpable regions of the freeze-time list, each with vaddr =
\* start and filesz = memsz = size.
C10_OneLoadPerDumpableRegion ==
    Succeeded =>
        /\ Len(LoadPhdrs) = Len(SelectSeqDumpable(finalVMAs))
        /\ \A i \in 1 .. Len(LoadPhdrs) :
              /\ LoadPhdrs[i].vaddr = SelectSeqDumpable(finalVMAs)[i].Start
              /\ LoadPhdrs[i].filesz = SelectSeqDumpable(finalVMAs)[i].MemSize
              /\ LoadPhdrs[i].memsz = SelectSeqDumpable(finalVMAs)[i].MemSize

\* The serializer (WriteCore) is running or has finished.
SerializerRuns == pc \in {"WriteELFHeader", "WriteProgramHeaders", "WriteNoteSegment", "WriteLoadSegment"}

\* C11: while the serializer runs, every dumpable region of the freeze-time
\* list that is not zero-fill has a staging entry under its (start, size)
\* key, however the list differs from the discovery-time list.
C11_EveryFreezeTimeRegionStaged ==
    SerializerRuns =>
        \A i \in 1 .. Len(finalVMAs) :
            (IsDumpable(finalVMAs[i]) /\ ~finalVMAs[i].IsZero)
                => HasAllocation(bufferManager, finalVMAs[i].Start, finalVMAs[i].MemSize)

\* C12: a region the freeze-time re-scan reports with the dd flag has no
\* PT_LOAD entry in the core the full pipeline produces.
C12_DontDumpRegionHasNoLoad ==
    Succeeded =>
        \A i \in 1 .. Len(finalVMAs) :
            "dd" \in finalVMAs[i].VmFlags
                => \A j \in 1 .. Len(LoadPhdrs) : LoadPhdrs[j].vaddr # finalVMAs[i].Start

\* The bytes the serializer wrote for the notes, and the offsets of the
\* file pages it wrote for the load segments.
NoteBytesWritten == IF outFile.notes = <<>> THEN 0
                    ELSE outFile.notes[Len(outFile.notes)].offset + outFile.notes[Len(outFile.notes)].written
                         - outFile.notes[1].offset

\* C13: in a finished core with n PT_LOAD entries and S bytes of notes the
\* note segment starts at 64 + (n+1)*56, the first PT_LOAD at
\* 64 + (n+1)*56 + S, every later PT_LOAD at the end of the one before it,
\* the written pages fill exactly the load segments, and the file ends
\* where the last segment ends.
C13_SegmentsTileTheFile ==
    Succeeded =>
        LET n == Len(LoadPhdrs)
            S == NoteBytesWritten
            noteStart == 64 + (n + 1) * 56
            fileEnd == IF n = 0 THEN noteStart + S
                       ELSE LoadPhdrs[n].offset + LoadPhdrs[n].filesz
        IN /\ outFile.ehdr[1].phoff = 64
           /\ Len(outFile.phdrs) = n + 1
           /\ outFile.phdrs[1].type = PT_NOTE
           /\ outFile.phdrs[1].offset = noteStart
           /\ outFile.phdrs[1].filesz = S
           /\ outFile.notes[1].offset = noteStart
           /\ \A i \in 2 .. Len(outFile.notes) :
                 outFile.notes[i].offset = outFile.notes[i - 1].offset + outFile.notes[i - 1].written
           /\ n > 0 => LoadPhdrs[1].offset = noteStart + S
           /\ \A i \in 2 .. n : LoadPhdrs[i].offset = LoadPhdrs[i - 1].offset + LoadPhdrs[i - 1].filesz
           /\ {x.off : x \in outFile.data}
                 = {a \in noteStart + S .. fileEnd - 1 : (a - (noteStart + S)) % PageSize = 0}
           /\ outFile.size = fileEnd

\* A finished core with two load segments and the notes of two threads.
C13_Witness == Succeeded /\ Len(LoadPhdrs) >= 2 /\ Len(outFile.notes) = 8

\* The NT_PRSTATUS notes of the core description.
PRStatusNotes == SelectSeq(coreInfo.Notes, LAMBDA note : note.Type = 1)

PassCopied == pc = "CopyVMA" /\ vmaIdx > Len(vmas)

\* The ratio measured in the current state is strictly below the threshold.
MeasuredBelow ==
    LET vs == convertVMAsToCopy(vmas)
        dirty == Cardinality(GetDirtyPages(vs, maps, softDirty))
        total == TotalPages(vs)
    IN IF total = 0 THEN 0 < config.DirtyThreshold
       ELSE dirty * 100 < config.DirtyThreshold * total

\* C15: the pre-copy runs between 1 and max_passes passes.  After a pass it
\* stops when the measured ratio is strictly below the threshold or the
\* pass was the last allowed one, and goes on otherwise; a copy round starts
\* only from the discovery or after a pass that was not below the
\* threshold; with threshold 0 it stops only after pass max_passes.
C15_PreCopyPassCount ==
    [][ /\ (pc' = "ClearSoftDirty" /\ pc # "ClearSoftDirty")
            => \/ pc = "Discovery"
               \/ PassCopied /\ ~MeasuredBelow /\ pass < config.MaxPasses
        /\ (pc' = "CopyVMA" /\ pc # "CopyVMA")
            => pc = "ClearSoftDirty" /\ pass' = pass + 1 /\ pass' <= config.MaxPasses
        /\ (PassCopied /\ pc' \notin {"CopyVMA", "Done"})
            => /\ 1 <= pass /\ pass <= config.MaxPasses
               /\ pass' = pass
               /\ pc' = IF MeasuredBelow \/ pass = config.MaxPasses
                         THEN "FreezeEnum" ELSE "ClearSoftDirty"
               /\ (config.DirtyThreshold = 0 /\ pc' = "FreezeEnum") => pass = config.MaxPasses
      ]_vars

\* The pre-copy stopped after its first pass although more were allowed,
\* with a dirty page left.
C15_Witness ==
    /\ pc = "FreezeEnum" /\ pass = 1 /\ config.MaxPasses = 2
    /\ GetDirtyPages(convertVMAsToCopy(vmas), maps, softDirty) # {}

\* C16: in every state of the manager, a call of GetOffsetForVMA with a key
\* some earlier call was made with returns the offset of the first such
\* call and leaves the manager as it is; a call with a new key returns the
\* cursor rounded up to the block size, adds the entry for the key, moves
\* the cursor to the end of the new range and keeps all other entries.
C16_OffsetIdempotentAndStable ==
    \A k \in StagingKeys :
        LET got == GetOffsetForVMA(bufferManager, k.start, k.size)
            seen == {f \in hist.first : f.start = k.start /\ f.size = k.size}
            block == bufferManager.fsBlockSize
        IN IF seen # {}
           THEN /\ \A f \in seen : got.offset = f.offset
                /\ got.bm = bufferManager
           ELSE /\ got.offset % block = 0
                /\ got.offset >= bufferManager.nextOffset
                /\ got.offset < bufferManager.nextOffset + block
                /\ got.bm.nextOffset = got.offset + k.size
                /\ got.bm.allocations = bufferManager.allocations
                      \cup {[Offset |-> k.start, Size |-> k.size, Tmp |-> got.offset]}
                /\ got.bm.fsBlockSize = block /\ got.bm.mmapSize = bufferManager.mmapSize
                /\ GetOffsetForVMA(got.bm, k.start, k.size) = [bm |-> got.bm, offset |-> got.offset]

\* Three keys were allocated and the cursor is not on a block boundary.
C16_Witness ==
    /\ Cardinality(hist.first) = 3
    /\ Cardinality(bufferManager.allocations) = 3
    /\ bufferManager.nextOffset % bufferManager.fsBlockSize # 0

RECURSIVE ReplayCalls(_, _)
\* The manager after the calls of GetOffsetForVMA with the given keys, made
\* one after the other.
ReplayCalls(bm, keys) ==
    IF keys = <<>> THEN bm
    ELSE ReplayCalls(GetOffsetForVMA(bm, Head(keys).start, Head(keys).size).bm, Tail(keys))

\* C17: under concurrent calls of GetOffsetForVMA and
\* GetExistingOffsetForVMA no key has two entries, the ranges of distinct
\* keys are disjoint, every call that returned an offset returned the
\* offset of its key's entry, every key of a returned GetOffsetForVMA call
\* has an entry, and whenever the mutex is free the manager is what the
\* calls made one after the other, in the order they got the mutex, give.
C17_ConcurrentCallsLinearize ==
    /\ \A a, b \in bufferManager.allocations :
          IF a.Offset = b.Offset /\ a.Size = b.Size THEN a = b
          ELSE a.Tmp + a.Size <= b.Tmp \/ b.Tmp + b.Size <= a.Tmp
    /\ \A r \in hist.returns :
          /\ r.op = "get" => r.ok
          /\ r.ok => /\ HasAllocation(bufferManager, r.start, r.size)
                      /\ AllocationOf(bufferManager, r.start, r.size) = r.offset
    /\ mu = 0 =>
          /\ bufferManager = ReplayCalls([bufferManager EXCEPT !.allocations = {}, !.nextOffset = 0],
                                         hist.order)
          /\ \A a \in bufferManager.allocations : a.Tmp + a.Size <= bufferManager.nextOffset

\* Two callers ask for different new keys at the same time: one holds the
\* mutex inside its allocation while the other waits for it.
C17_Witness ==
    /\ callers[1].pc = "store" /\ callers[2].pc = "lock"
    /\ callers[1].op = "get" /\ callers[2].op = "get"
    /\ callers[1].start # callers[2].start

\* C18: no region copy and no delta page copy places a byte at or beyond
\* the mapped size of the staging file.
C18_StagingWritesStayInside == ~hist.oob

\* C19: when the dumper was started with --fix-yama and has set a non-zero
\* ptrace_scope to 0, the sysctl holds its original value again when the
\* dumper process has ended, on every exit path (unless a write of the
\* original value was refused by the kernel).
C19_YamaRestoredAtExit ==
    (main.pc = "exited" /\ hist.yamaSet /\ ~hist.restoreFailed) => yama = main.original

\* C20: the dumper process does not end inside the stop window: a signal
\* that arrives while the threads are frozen takes effect only after the
\* freeze-delta phase has completed or has unfrozen on its failure path.
C20_NoExitInsideStopWindow ==
    main.pc = "exited" => main.exitedAt \notin
        {"CollectRegisters", "Rescan", "DeltaScan", "DeltaCopy", "Unfreeze", "UnfreezeOnError"}

\* C21: in a finished core every region the re-scan reports with the
\* permissions ---p has a PT_LOAD entry with filesz = memsz = its size, and
\* no page of that entry's file range was written: the range exists only
\* because the file was extended over it.
C21_NoAccessRegionIsSparseLoad ==
    Succeeded =>
        \A i \in 1 .. Len(finalVMAs) :
            finalVMAs[i].Perms = {} =>
                \E j \in 1 .. Len(LoadPhdrs) :
                    /\ LoadPhdrs[j].vaddr = finalVMAs[i].Start
                    /\ LoadPhdrs[j].filesz = finalVMAs[i].MemSize
                    /\ LoadPhdrs[j].memsz = finalVMAs[i].MemSize
                    /\ \A x \in outFile.data :
                          x.off < LoadPhdrs[j].offset
                          \/ x.off >= LoadPhdrs[j].offset + LoadPhdrs[j].filesz
                    /\ outFile.size >= LoadPhdrs[j].offset + LoadPhdrs[j].filesz

\* ------------------------------------------------------------------------
\* internal/elfcore: the bytes of a note.
\* ------------------------------------------------------------------------
\* Longest note data, in bytes, given to the note writer.
MaxDataLen == 4

\* Longest list of notes given to the note writer.
MaxNotes == 2

NT_PRSTATUS == 1

NT_AUXV == 6

\* The note name "CORE", and the five-letter name "LINUX", as bytes.
CORE == <<67, 79, 82, 69>>

LINUX == <<76, 73, 78, 85, 88>>

Zeros(n) == [i \in 1 .. n |-> 0]

Fill(n, b) == [i \in 1 .. n |-> b]

\* binary.LittleEndian.PutUint32 and its inverse.
PutUint32(n) ==
    <<n % 256, (n \div 256) % 256, (n \div 65536) % 256, (n \div 16777216) % 256>>

Uint32(b) == b[1] + 256 * b[2] + 65536 * b[3] + 16777216 * b[4]

\* NoteWriter.WriteNote: the header carries the padded sizes; data padding is
\* written only for non-empty data.
WriteNote(name, noteType, data) ==
    LET nameSize == padUpTo4Bytes(Len(name) + 1)
        dataSize == padUpTo4Bytes(Len(data))
    IN PutUint32(nameSize) \o PutUint32(dataSize) \o PutUint32(noteType)
           \o name \o Zeros(nameSize - Len(name))
           \o (IF Len(data) > 0 THEN data \o Zeros(dataSize - Len(data)) ELSE <<>>)

\* Notes the writer is given: both name lengths, two types, and data of every
\* length up to MaxDataLen, ending in a non-zero or in a zero byte.
NoteData ==
    {Fill(n, 7) : n \in 0 .. MaxDataLen} \cup {Fill(n - 1, 7) \o <<0>> : n \in 1 .. MaxDataLen}

NoteInputs == [Name : {CORE, LINUX}, Type : {NT_PRSTATUS, NT_AUXV}, Data : NoteData]

\* ELFWriter.writeNote, once per note of writeNoteSegment's loop: the bytes of
\* a fresh NoteWriter are written at the running offset.
writeNote ==
    /\ noteIdx < Len(notes)
    /\ noteErr = ""
    /\ LET note == notes[noteIdx + 1]
       IN noteSeg' = noteSeg \o WriteNote(note.Name, note.Type, note.Data)
    /\ noteIdx' = noteIdx + 1
    /\ UNCHANGED <<targetVars, mainVars, callVars, pipelineVars, bufferManager, hist,
                   noteThreads, auxvData, notes, noteErr, segmentCount, workerPool>>

NoteWriterInit ==
    /\ InitState(1 .. MaxPassesFlag, {DefaultDirtyThresh}, {8192}, {mmapSize})
    /\ StartedRun
    /\ noteThreads = <<>>
    /\ auxvData = <<>>
    /\ notes \in UNION {[1 .. n -> NoteInputs] : n \in 1 .. MaxNotes}
    /\ noteIdx = 0
    /\ noteSeg = <<>>
    /\ noteErr = ""
    /\ segmentCount = 0
    /\ workerPool = PoolIdle

NoteWriterSpec == NoteWriterInit /\ [][writeNote]_vars

\* A standard reader of a note segment: a 12-byte header (namesz, descsz,
\* type), namesz bytes of name padded to 4, descsz bytes of data padded to 4.
\* The name is the string up to its terminating zero byte.
RECURSIVE CString(_)
CString(b) == IF b = <<>> \/ Head(b) = 0 THEN <<>> ELSE <<Head(b)>> \o CString(Tail(b))

RECURSIVE WalkNotes(_)
WalkNotes(b) ==
    IF Len(b) < 12 THEN <<>>
    ELSE LET namesz == Uint32(SubSeq(b, 1, 4))
             descsz == Uint32(SubSeq(b, 5, 8))
             type == Uint32(SubSeq(b, 9, 12))
             nameEnd == 12 + padUpTo4Bytes(namesz)
             descEnd == nameEnd + padUpTo4Bytes(descsz)
         IN IF descEnd > Len(b) THEN <<>>
            ELSE <<[Name |-> CString(SubSeq(b, 13, 12 + namesz)), Type |-> type,
                    Data |-> SubSeq(b, nameEnd + 1, nameEnd + descsz)]>>
                     \o WalkNotes(SubSeq(b, descEnd + 1, Len(b)))

\* C22: walking the note bytes written so far with a standard note reader
\* gives back exactly the notes written so far: same names, types and data,
\* in the same order, also for data whose length is not a multiple of 4.
C22_NoteRoundTrip == WalkNotes(noteSeg) = SubSeq(notes, 1, noteIdx)

\* ------------------------------------------------------------------------
\* internal/elfcore: the bodies of the NT_PRSTATUS and NT_AUXV notes.
\* ------------------------------------------------------------------------
\* Largest number of 16-byte entries in the target's auxiliary vector.
MaxAuxvEntries == 2

\* Thread ids that take one, two and three bytes of the 4-byte field.
NoteTids == {1, 258, 4194303}

\* A register buffer of n non-zero bytes.
Regs(n) == [i \in 1 .. n |-> (i % 255) + 1]

\* Buffers GetThreadRegisters returns (216 bytes of general registers, all
\* zero for a thread that is gone), and the empty, the short and the longer
\* buffer createPRStatusNote also accepts.
RegisterBuffers == {<<>>, Regs(8), Regs(216), Regs(216 + 512), Zeros(216)}

\* copy(dst[at:at+Len(src)], src) on a byte slice (at is 0-based).
CopyAt(dst, at, src) ==
    [i \in 1 .. Len(dst) |-> IF i > at /\ i <= at + Len(src) THEN src[i - at] ELSE dst[i]]

\* createPRStatusNote: a zeroed body with the thread id and at most 216
\* bytes of the register buffer.
createPRStatusNote(thread) ==
    LET prstatus == CopyAt(Zeros(352), 34, PutUint32(thread.Tid))
        copyLen == IF Len(thread.Registers) > 216 THEN 216 ELSE Len(thread.Registers)
    IN [Name |-> CORE, Type |-> NT_PRSTATUS,
        Data |-> IF Len(thread.Registers) > 0
                 THEN CopyAt(prstatus, 114, SubSeq(thread.Registers, 1, copyLen))
                 ELSE prstatus]

\* The 16-byte entries of an auxiliary vector: AT_NULL, AT_PAGESZ = 4096,
\* AT_SECURE = 0 (a zero value), and a zero type with a non-zero value.
AT_NULL == Zeros(16)

AuxvEntries ==
    {AT_NULL,
     <<6, 0, 0, 0, 0, 0, 0, 0, 0, 16, 0, 0, 0, 0, 0, 0>>,
     <<23, 0, 0, 0, 0, 0, 0, 0, 0, 0, 0, 0, 0, 0, 0, 0>>,
     <<0, 0, 0, 0, 0, 0, 0, 0, 0, 0, 0, 0, 0, 0, 0, 1>>}

RECURSIVE Flatten(_)
Flatten(ss) == IF ss = <<>> THEN <<>> ELSE Head(ss) \o Flatten(Tail(ss))

\* Contents of /proc/<pid>/auxv: whole entries, or whole entries followed by
\* half an entry.
AuxvFiles ==
    LET whole == {Flatten(es) : es \in UNION {[1 .. n -> AuxvEntries] : n \in 0 .. MaxAuxvEntries}}
    IN whole \cup {w \o <<6, 0, 0, 0, 0, 0, 0, 0>> : w \in whole}

AllZeros(b) == \A i \in 1 .. Len(b) : b[i] = 0

\* Variant: the file's contents used as they are.
AuxvVerbatim(data) == [err |-> "", Data |-> data]

\* createAuxvNote after the file is read: the length check and the AT_NULL
\* terminator.
NormalizeAuxv(data) ==
    IF Len(data) % 16 # 0 THEN [err |-> "AuxvMalformed", Data |-> <<>>]
    ELSE IF Len(data) >= 16
         THEN IF AllZeros(SubSeq(data, Len(data) - 15, Len(data)))
              THEN [err |-> "", Data |-> data]
              ELSE [err |-> "", Data |-> data \o Zeros(16)]
         ELSE IF Len(data) = 0 THEN [err |-> "", Data |-> Zeros(16)]
              ELSE [err |-> "", Data |-> data]

\* CreateCoreNotes, the NT_PRSTATUS loop: one note per thread.
CreatePRStatusNote ==
    /\ noteErr = ""
    /\ noteIdx < Len(noteThreads)
    /\ notes' = Append(notes, createPRStatusNote(noteThreads[noteIdx + 1]))
    /\ noteIdx' = noteIdx + 1
    /\ UNCHANGED <<targetVars, mainVars, callVars, pipelineVars, bufferManager, hist,
                   noteThreads, auxvData, noteSeg, noteErr, segmentCount, workerPool>>

\* createAuxvNote: reads the file (the read fails when the target is gone)
\* and builds the note.
CreateAuxvNote ==
    /\ noteErr = ""
    /\ noteThreads # <<>>
    /\ noteIdx = Len(noteThreads)
    /\ \E ok \in BOOLEAN :
         LET got == NormalizeAuxv(auxvData)
         IN IF ok /\ got.err = ""
            THEN /\ notes' = Append(notes, [Name |-> CORE, Type |-> NT_AUXV, Data |-> got.Data])
                 /\ noteIdx' = noteIdx + 1
                 /\ UNCHANGED noteErr
            ELSE /\ noteErr' = IF ok THEN got.err ELSE "ReadAuxv"
                 /\ UNCHANGED <<notes, noteIdx>>
    /\ UNCHANGED <<targetVars, mainVars, callVars, pipelineVars, bufferManager, hist,
                   noteThreads, auxvData, noteSeg, segmentCount, workerPool>>

CoreNotesInit ==
    /\ InitState(1 .. MaxPassesFlag, {DefaultDirtyThresh}, {8192}, {mmapSize})
    /\ StartedRun
    /\ noteThreads \in {<<t>> : t \in [Tid : NoteTids, Registers : RegisterBuffers]}
    /\ auxvData \in AuxvFiles
    /\ notes = <<>>
    /\ noteIdx = 0
    /\ noteSeg = <<>>
    /\ noteErr = ""
    /\ segmentCount = 0
    /\ workerPool = PoolIdle

CoreNotesNext == CreatePRStatusNote \/ CreateAuxvNote

CoreNotesSpec == CoreNotesInit /\ [][CoreNotesNext]_vars

\* The NT_PRSTATUS note of the i-th thread, where it has been created.
PRStatusCreated(i) == i <= Len(noteThreads) /\ i <= Len(notes)

\* The 216-byte register block of a thread: its buffer cut or zero-padded.
RegisterBlock(regs) == [i \in 1 .. 216 |-> IF i <= Len(regs) THEN regs[i] ELSE 0]

\* C23: every NT_PRSTATUS body is 336 bytes: the thread id in bytes 32..35,
\* the register buffer cut or zero-padded to 216 bytes in bytes 112..327,
\* and zero everywhere else.
C23_PRStatusLayout ==
    \A i \in 1 .. Len(noteThreads) :
        PRStatusCreated(i) =>
            LET body == notes[i].Data
                thread == noteThreads[i]
            IN /\ notes[i].Type = NT_PRSTATUS
               /\ Len(body) = 336
               /\ SubSeq(body, 33, 36) = PutUint32(thread.Tid)
               /\ SubSeq(body, 113, 328) = RegisterBlock(thread.Registers)
               /\ \A k \in 1 .. Len(body) :
                      (k \notin 33 .. 36 /\ k \notin 113 .. 328) => body[k] = 0

\* The NT_AUXV note has been created from the file's contents.
AuxvCreated == noteThreads # <<>> /\ noteIdx = Len(noteThreads) + 1

\* C24: the NT_AUXV body is made from a file whose length is a multiple of
\* 16; it is the file byte for byte when the file's last 16-byte entry is
\* all zero, and otherwise the file followed by exactly one all-zero entry;
\* normalising the body again changes nothing.
C24_AuxvNormalised ==
    AuxvCreated =>
        LET body == notes[Len(notes)].Data
            n == Len(auxvData)
        IN /\ notes[Len(notes)].Type = NT_AUXV
           /\ n % 16 = 0
           /\ IF n >= 16 /\ AllZeros(SubSeq(auxvData, n - 15, n))
              THEN body = auxvData
              ELSE body = auxvData \o Zeros(16)
           /\ NormalizeAuxv(body) = [err |-> "", Data |-> body]

\* An auxiliary vector of two entries without a terminator has been extended.
C24_Witness ==
    /\ AuxvCreated
    /\ Len(auxvData) = 32
    /\ Len(notes[Len(notes)].Data) = 48

\* ------------------------------------------------------------------------
\* The order of resets, copy rounds and measurements in RunPreCopy.
\* ------------------------------------------------------------------------
\* A step that begins a copy round.
RoundStarts == pc' = "CopyVMA" /\ (pc # "CopyVMA" \/ pass' # pass)

\* A step that measures the dirty ratio of the round and acts on it.
RoundMeasured == pc = "CopyVMA" /\ (result' # result \/ pc' \in {"ClearSoftDirty", "FreezeEnum"})

\* A copy round is under way: a region of the list is still to be copied.
RoundUnderWay == pc = "CopyVMA" /\ vmaIdx <= Len(vmas)

\* C25: a copy round begins only with a reset of the soft-dirty bits, and
\* a reset is due only at the start or after the previous round was
\* measured; a round is measured only when every region of the list has
\* been copied in it; while a round is under way no other round begins, no
\* soft-dirty bit is reset and the regions are copied one after the other.
C25_PreCopyRoundsOrdered ==
    [][ /\ RoundStarts
            => /\ pc = "ClearSoftDirty"
               /\ softDirty' = [a \in AllPages |-> FALSE]
               /\ vmaIdx' = 1
               /\ pass' = pass + 1
        /\ (pc' = "ClearSoftDirty" /\ pc # "ClearSoftDirty")
            => pc = "Discovery" \/ (RoundMeasured /\ vmaIdx = Len(vmas) + 1)
        /\ RoundMeasured => vmaIdx = Len(vmas) + 1
        /\ RoundUnderWay
            => /\ pass' = pass
               /\ vmaIdx' \in {vmaIdx, vmaIdx + 1}
               /\ pc' \in {"CopyVMA", "Done"}
               /\ result' = result
               /\ \A a \in AllPages : softDirty[a] => softDirty'[a]
      ]_vars

\* The second round has been copied and measured.
C25_Witness == pc = "FreezeEnum" /\ pass = 2 /\ vmaIdx = Len(vmas) + 1 /\ Len(vmas) >= 2

\* C26: when the pre-copy has returned, the pass count of its result is the
\* number of passes that were executed.
C26_ReportedPassesAreExecutedPasses ==
    (pc = "FreezeEnum" /\ pass >= 1) => result.Passes = pass

\* ------------------------------------------------------------------------
\* A target whose map has the [vvar] pages: a region the dumper lists and
\* dumps, and cannot read.
\* ------------------------------------------------------------------------
VvarInit ==
    /\ InitStateWith(InitialMaps \cup {VvarEntry}, 1 .. MaxPassesFlag, {DefaultDirtyThresh},
                     {8192}, {mmapSize})
    /\ StartedRun
    /\ NotesIdle

VvarNext ==
    \/ Discovery
    \/ ClearSoftDirty
    \/ CopyVMA
    \/ DirtyRatio
    \/ FreezeEnum
    \/ FreezeThread
    \/ FreezePassEnd
    \/ CollectRegisters
    \/ Rescan
    \/ DeltaScan
    \/ DeltaCopy
    \/ UnfreezeOnError
    \/ Unfreeze
    \/ CreateNotes
    \/ NewELFWriter
    \/ WriteELFHeader
    \/ WriteProgramHeaders
    \/ WriteNoteSegment
    \/ WriteLoadSegment
    \/ \E t \in Tids, a \in AllPages : TargetWrite(t, a)

VvarSpec == VvarInit /\ [][VvarNext]_vars

\* The discovery-time regions whose read fails as unreadable.
UnreadableRegions ==
    {i \in 1 .. Len(vmas) : Unreadable(maps, (vmas[i].Start \div PageSize) * PageSize)}

\* C27: no run fails because a pre-copy read found a region unreadable;
\* every unreadable region the pre-copy has gone past has a staging entry,
\* whose pages are zero when the serializer starts; and in a finished core
\* the PT_LOAD data of such a region are these zero pages.
C27_UnreadableRegionSkippedAndStaged ==
    /\ hist.cause # "unreadable"
    /\ \A i \in UnreadableRegions :
          /\ (pc = "CopyVMA" /\ i < vmaIdx)
                => HasAllocation(bufferManager, vmas[i].Start, vmas[i].MemSize)
          /\ pc = "WriteELFHeader"
                => /\ HasAllocation(bufferManager, vmas[i].Start, vmas[i].MemSize)
                   /\ \A a \in PagesOf(vmas[i].Start, vmas[i].End) : Staged(vmas[i], a) = 0
          /\ Succeeded
                => \A j \in 1 .. Len(LoadPhdrs) :
                      LoadPhdrs[j].vaddr = vmas[i].Start /\ LoadPhdrs[j].filesz = vmas[i].MemSize
                          => \A a \in PagesOf(vmas[i].Start, vmas[i].End) :
                                [off |-> LoadPhdrs[j].offset + (a - vmas[i].Start), val |-> 0]
                                    \in outFile.data

\* A finished core with a PT_LOAD for the [vvar] region, filled with zeros.
C27_Witness ==
    /\ Succeeded
    /\ \E j \in 1 .. Len(LoadPhdrs) :
          /\ LoadPhdrs[j].vaddr = VvarEntry.start
          /\ [off |-> LoadPhdrs[j].offset, val |-> 0] \in outFile.data

C29_RegisterCapturePolicy ==
    [][ /\ (pc = "CollectRegisters" /\ pc' = "Rescan")
            => /\ Len(frozenThreads') = Len(frozenThreads)
               /\ \A i \in 1 .. Len(frozenThreads) :
                     /\ frozenThreads'[i].Tid = frozenThreads[i].Tid
                     /\ frozenThreads'[i].Registers =
                            IF frozenThreads[i].Tid \in alive THEN "gregs" ELSE "empty"
        /\ (pc = "CollectRegisters" /\ pc' \notin {"CollectRegisters", "Rescan"})
            => pc' = "UnfreezeOnError" /\ retErr' = "registers"
        /\ (pc = "UnfreezeOnError" /\ pc' = "Done" /\ hist.cause = "registers")
            => retErr' = "registers" /\ hist'.detachTried = TidsOf(frozenThreads)
      ]_vars

\* C30: UnfreezeAllThreads is best-effort over its whole list.  A detach is
\* tried for every thread of the list, also after an earlier detach failed:
\* every thread whose own detach did not fail is released.  A thread that is
\* gone is not an error: when no detach of a live thread failed, the unfreeze
\* at the end of the stop window goes on to the notes without an error, and
\* it reports an error only when the detach of a live thread failed.
C30_UnfreezeIsBestEffort ==
    [][ (pc \in {"Unfreeze", "UnfreezeOnError"} /\ pc' # pc)
          => /\ hist'.detachTried = TidsOf(frozenThreads)
             /\ hist'.detachFailed \subseteq TidsOf(frozenThreads) \cap alive
             /\ attached' \cap TidsOf(frozenThreads) \subseteq hist'.detachFailed
             /\ stopped' \cap TidsOf(frozenThreads) \subseteq hist'.detachFailed
             /\ pc = "Unfreeze" =>
                   /\ (attached' \cap TidsOf(frozenThreads) = {})
                          => (pc' = "CreateNotes" /\ retErr' = "")
                   /\ (attached' \cap TidsOf(frozenThreads) # {})
                          => (pc' = "Done" /\ retErr' = "unfreeze")
      ]_vars

\* The unfreeze has run over a list in which the detach of one live thread
\* failed and a later thread of the list was released all the same.
C30_Witness ==
    /\ pc = "Done"
    /\ hist.detachTried = TidsOf(frozenThreads)
    /\ \E f \in hist.detachFailed : \E t \in hist.detachTried :
          t > f /\ t \in alive /\ t \notin attached /\ t \in hist.seized

\* C31: after any sequence of allocations every staging entry's offset is a
\* multiple of the filesystem block size, the ranges [offset, offset + size)
\* of distinct (start, size) keys are pairwise disjoint and lie below the
\* cursor, no key has two entries, and over every call an entry that exists
\* keeps its offset and the next-offset cursor does not decrease.
C31_AllocatorInvariant ==
    /\ [](/\ \A a \in bufferManager.allocations :
                /\ a.Tmp % bufferManager.fsBlockSize = 0
                /\ a.Tmp >= 0
                /\ a.Tmp + a.Size <= bufferManager.nextOffset
          /\ \A a, b \in bufferManager.allocations :
                /\ (a.Offset = b.Offset /\ a.Size = b.Size) => a = b
                /\ a # b => (a.Tmp + a.Size <= b.Tmp \/ b.Tmp + b.Size <= a.Tmp))
    /\ [][/\ bufferManager.allocations \subseteq bufferManager'.allocations
          /\ bufferManager'.nextOffset >= bufferManager.nextOffset]_vars

\* Every key of the target has an entry, the block is two pages, and an
\* entry whose size is not a multiple of the block is followed by another.
C31_Witness ==
    /\ Cardinality(bufferManager.allocations) = Cardinality(StagingKeys)
    /\ bufferManager.fsBlockSize = 8192
    /\ \E a \in bufferManager.allocations :
          a.Size % 8192 # 0 /\ a.Tmp + a.Size < bufferManager.nextOffset

\* The serializer is at a load segment of a region that is not zero-fill
\* and has no staging entry.
AtUncopiedRegion ==
    /\ pc = "WriteLoadSegment"
    /\ vmaIdx <= Len(LoadSegments(coreInfo))
    /\ ~LoadSegments(coreInfo)[vmaIdx].VMA.IsZero
    /\ ~HasAllocation(bufferManager, LoadSegments(coreInfo)[vmaIdx].VMA.Start,
                      LoadSegments(coreInfo)[vmaIdx].VMA.MemSize)

\* C32: when the serializer comes to a dumpable region that is not
\* zero-fill and has no staging entry, its next step ends the run with an
\* error whose cause is the uncopied region; the step creates no staging
\* entry and leaves the staging mapping as it is, and the output file stays
\* as written so far: it exists with its header, program headers, notes and
\* the data of the earlier segments, and nothing removes or changes it.
C32_UncopiedRegionFailsWithoutAllocating ==
    [][AtUncopiedRegion =>
          /\ pc' = "Done" /\ retErr' # ""
          /\ hist'.cause = "uncopied"
          /\ bufferManager' = bufferManager
          /\ mmapData' = mmapData
          /\ outFile' = outFile
          /\ outFile.created /\ outFile.ehdr # <<>> /\ outFile.phdrs # <<>>
          /\ outFile.notes # <<>>
          /\ \A i \in 1 .. vmaIdx - 1 :
                \E x \in outFile.data : x.off = LoadSegments(coreInfo)[i].Offset
      ]_vars

\* The run failed at an uncopied region after the data of an earlier
\* segment had been written.
C32_Witness ==
    /\ pc = "Done" /\ retErr = "write" /\ hist.cause = "uncopied"
    /\ vmaIdx > 1
    /\ outFile.created /\ outFile.data # {} /\ outFile.notes # <<>>

\* The staging pages of the load segment seg.
StagingPagesOf(seg) ==
    IF HasAllocation(bufferManager, seg.VMA.Start, seg.VMA.MemSize)
    THEN {(AllocationOf(bufferManager, seg.VMA.Start, seg.VMA.MemSize) \div PageSize) + k :
             k \in 0 .. (seg.VMA.MemSize \div PageSize) - 1}
    ELSE {}

\* C33: a step of the serializer that changes the staging mapping is the
\* hole-punch of the segment it has just written: after the step the output
\* file holds, at the segment's file offset, the bytes the staging range held
\* before the punch; the punch changes only pages of that segment's staging
\* range, to zero, and no staging page of a segment still to be written.  A
\* segment whose data was written is followed by the next segment without an
\* error, whether or not its punch worked.
C33_PunchAfterWriteBestEffort ==
    [][pc = "WriteLoadSegment" =>
          LET segs == LoadSegments(coreInfo)
          IN /\ mmapData' # mmapData =>
                   /\ vmaIdx <= Len(segs) /\ vmaIdx' = vmaIdx + 1
                   /\ \A i \in DOMAIN mmapData :
                         mmapData'[i] # mmapData[i] =>
                            /\ i \in StagingPagesOf(segs[vmaIdx])
                            /\ mmapData'[i] = 0
                            /\ \E x \in outFile'.data :
                                  /\ x.val = mmapData[i]
                                  /\ x.off = segs[vmaIdx].Offset + i * PageSize
                                       - AllocationOf(bufferManager, segs[vmaIdx].VMA.Start,
                                                      segs[vmaIdx].VMA.MemSize)
                   /\ \A j \in vmaIdx + 1 .. Len(segs) :
                         \A i \in StagingPagesOf(segs[j]) : mmapData'[i] = mmapData[i]
             /\ outFile'.data # outFile.data =>
                   /\ pc' = "WriteLoadSegment" /\ retErr' = retErr /\ hist'.cause = hist.cause
                   /\ vmaIdx' = vmaIdx + 1
      ]_vars

\* The run succeeded with two segments of non-zero data written: the staging
\* range of one is punched, the staging range of the other still holds its
\* bytes because its punch failed.
C33_Witness ==
    /\ pc = "Done" /\ retErr = ""
    /\ \E i, j \in 1 .. Len(LoadSegments(coreInfo)) :
          /\ i < j
          /\ \E x \in outFile.data : x.off = LoadSegments(coreInfo)[i].Offset /\ x.val # 0
          /\ \A n \in StagingPagesOf(LoadSegments(coreInfo)[i]) : mmapData[n] = 0
          /\ \E x \in outFile.data : x.off = LoadSegments(coreInfo)[j].Offset /\ x.val # 0
          /\ \E n \in StagingPagesOf(LoadSegments(coreInfo)[j]) : mmapData[n] # 0

\* Longest note name given to the note writer when sizes are compared.
MaxNameLen == 5

\* The note writer on lists of notes with names of every length up to
\* MaxNameLen and data of every length up to MaxDataLen.
NoteSizeInit ==
    /\ InitState(1 .. MaxPassesFlag, {DefaultDirtyThresh}, {8192}, {mmapSize})
    /\ StartedRun
    /\ noteThreads = <<>>
    /\ auxvData = <<>>
    /\ notes \in UNION {[1 .. n -> [Name : {Fill(k, 78) : k \in 0 .. MaxNameLen},
                                    Type : {NT_PRSTATUS},
                                    Data : {Fill(k, 7) : k \in 0 .. MaxDataLen}]] :
                           n \in 1 .. MaxNotes}
    /\ noteIdx = 0
    /\ noteSeg = <<>>
    /\ noteErr = ""
    /\ segmentCount = 0
    /\ workerPool = PoolIdle

NoteSizeSpec == NoteSizeInit /\ [][writeNote]_vars

\* C34: the number of bytes written for the notes so far equals the sum of
\* calculateNoteSize over those notes; once every note is written, the size
\* of the note segment declared by calculateNoteLayout equals the bytes
\* written, and the first load segment is laid out at the offset where the
\* last note ends.  For every name length and every data length, 0 included.
C34_NoteSizeIsBytesWritten ==
    LET sized == [i \in 1 .. Len(notes) |->
                     [Name |-> notes[i].Name, DataLen |-> Len(notes[i].Data)]]
        info == [Threads |-> <<>>, VMAs |-> convertVMAs(ParseMaps(InitialMaps)),
                 Notes |-> sized]
        layout == calculateNoteLayout(info)
    IN /\ Len(noteSeg) = SumNoteSizes(SubSeq(sized, 1, noteIdx))
       /\ noteIdx = Len(notes) =>
             /\ layout.noteSize = Len(noteSeg)
             /\ LoadSegments(info) # <<>>
             /\ LoadSegments(info)[1].Offset = layout.noteOffset + Len(noteSeg)

\* Two notes are written: one with empty data and a name that needs no
\* padding, one with data and a name that both need padding.
C34_Witness ==
    /\ Len(notes) = 2 /\ noteIdx = 2
    /\ Len(notes[1].Data) = 0 /\ Len(notes[1].Name) = 3
    /\ Len(notes[2].Data) = 3 /\ Len(notes[2].Name) = 5
    /\ Len(noteSeg) = 16 + 24

\* ------------------------------------------------------------------------
\* The ELF header and the program header table for any number of load
\* segments.
\* ------------------------------------------------------------------------
\* Largest number of load segments given to WriteCore.
MaxSegments == 65540

\* Numbers of load segments: few, and around the largest 16-bit count.
SegmentCounts == (0 .. 60) \cup (65500 .. MaxSegments)

ElfHeaderInit ==
    /\ InitState(1 .. MaxPassesFlag, {DefaultDirtyThresh}, {8192}, {mmapSize})
    /\ StartedRun
    /\ noteThreads = <<>>
    /\ auxvData = <<>>
    /\ notes = <<>>
    /\ noteIdx = 0
    /\ noteSeg = <<>>
    /\ noteErr = ""
    /\ segmentCount \in SegmentCounts
    /\ workerPool = PoolIdle

\* WriteCore, first step, for segmentCount load segments.
WriteHeaderForSegments ==
    /\ outFile.ehdr = <<>>
    /\ retErr = ""
    /\ \E ok \in BOOLEAN :
         IF ok
         THEN /\ outFile' = [outFile EXCEPT
                    !.created = TRUE,
                    !.ehdr = <<writeELFHeader(segmentCount + 1)>>,
                    !.size = Max(@, elfHeaderSize)]
              /\ UNCHANGED retErr
         ELSE /\ retErr' = "write"
              /\ UNCHANGED outFile
    /\ UNCHANGED <<targetVars, mainVars, callVars, noteVars, config, pc, vmas, pass, vmaIdx, result,
                   bufferManager, mmapData, freezeVars, frozenThreads, finalVMAs, dirtyPages,
                   coreInfo, hist>>

\* writeProgramHeaders for segmentCount load segments: the PT_NOTE entry and
\* one PT_LOAD entry per segment, 56 bytes each, from offset 64 on.  The
\* table is kept by its extent in the file.
WriteTableForSegments ==
    /\ outFile.ehdr # <<>>
    /\ outFile.size = elfHeaderSize
    /\ retErr = ""
    /\ \E ok \in BOOLEAN :
         IF ok
         THEN /\ outFile' = [outFile EXCEPT
                    !.size = Max(@, elfHeaderSize + (segmentCount + 1) * phdrSize)]
              /\ UNCHANGED retErr
         ELSE /\ retErr' = "write"
              /\ UNCHANGED outFile
    /\ UNCHANGED <<targetVars, mainVars, callVars, noteVars, config, pc, vmas, pass, vmaIdx, result,
                   bufferManager, mmapData, freezeVars, frozenThreads, finalVMAs, dirtyPages,
                   coreInfo, hist>>

ElfHeaderNext == WriteHeaderForSegments \/ WriteTableForSegments

ElfHeaderSpec == ElfHeaderInit /\ [][ElfHeaderNext]_vars

\* C35: the program-header count in the ELF header equals 1 + the number of
\* load segments, and once the program header table is written it equals
\* the number of 56-byte entries the table holds, for every number of
\* segments, also when 1 + n exceeds 65535.
C35_PhnumIsHeaderCount ==
    outFile.ehdr # <<>> =>
        /\ outFile.ehdr[1].phnum = segmentCount + 1
        /\ outFile.size > elfHeaderSize =>
              outFile.ehdr[1].phnum * phdrSize = outFile.size - elfHeaderSize

\* C36: for the discovery-time region list, against the target's current
\* maps and soft-dirty bits: every address the scan of a region reports is a
\* multiple of the page size and lies in [Start, End) of that region; for
\* every prefix of the list (the empty one included) the number of dirty
\* addresses is at most the total page count, so the ratio is between 0 and
\* 1; and with a total of 0 pages the ratio compares as 0 does: below every
\* positive threshold and not below 0.
C36_DirtyMapInsideRegions ==
    LET vs == convertVMAsToCopy(vmas)
    IN /\ \A i \in 1 .. Len(vs) :
             \A a \in scanVMAForDirtyPages(vs[i], maps, softDirty) :
                a % PageSize = 0 /\ vs[i].Start <= a /\ a < vs[i].End
       /\ \A n \in 0 .. Len(vs) :
             LET dirtyCount == Cardinality(GetDirtyPages(SubSeq(vs, 1, n), maps, softDirty))
                 totalPages == TotalPages(SubSeq(vs, 1, n))
             IN /\ 0 <= dirtyCount /\ dirtyCount <= totalPages
                /\ totalPages = 0 =>
                      /\ dirtyCount = 0
                      /\ \A t \in 0 .. 100 : DirtyRatioBelow(dirtyCount, totalPages, t) <=> 0 < t

\* The ratio was measured over a list of several regions with a dirty page
\* in one region and none in another.
C36_Witness ==
    /\ pc = "FreezeEnum"
    /\ Len(vmas) >= 2
    /\ \E i, j \in 1 .. Len(vmas) :
          /\ scanVMAForDirtyPages(convertVMAsToCopy(vmas)[i], maps, softDirty) # {}
          /\ scanVMAForDirtyPages(convertVMAsToCopy(vmas)[j], maps, softDirty) = {}

\* ------------------------------------------------------------------------
\* The page-map scan under short and failing reads.
\* ------------------------------------------------------------------------
\* What file.ReadAt of a region's N*8 entry bytes returns: all bytes and no
\* error; some but not all bytes, with an error (ReadAt returns a non-nil
\* error whenever n < len(b)); or no bytes, with an error.
ReadOutcomes == {"full", "short", "none"}

\* scanVMAForDirtyPages for a given result of its one ReadAt: with an error
\* the region is skipped when n = 0 and the scan fails otherwise.
scanVMAWithRead(vma, m, sd, read) ==
    IF read = "none" THEN [err |-> "", pages |-> {}]
    ELSE IF read = "short" THEN [err |-> "PagemapRead", pages |-> {}]
    ELSE [err |-> "", pages |-> scanVMAForDirtyPages(vma, m, sd)]

\* GetDirtyPages over the list: the error of a region ends the scan and no
\* map is returned.
GetDirtyPagesWithReads(vs, m, sd, reads) ==
    IF \E i \in 1 .. Len(vs) : scanVMAWithRead(vs[i], m, sd, reads[i]).err # ""
    THEN [err |-> "PagemapRead", pages |-> {}]
    ELSE [err |-> "",
          pages |-> {d \in [addr : AllPages, vma : {vs[i] : i \in 1 .. Len(vs)}] :
                        \E i \in 1 .. Len(vs) :
                           /\ vs[i] = d.vma
                           /\ d.addr \in scanVMAWithRead(vs[i], m, sd, reads[i]).pages}]

\* One scan of the discovery-time list, each region's read ending in one of
\* the three ways; a read at the vsyscall page always returns no bytes.
PagemapScan ==
    /\ pc = "ClearSoftDirty"
    /\ hist.reads = <<>>
    /\ LET vs == convertVMAsToCopy(vmas)
       IN \E reads \in [1 .. Len(vs) -> ReadOutcomes] :
            /\ \A i \in 1 .. Len(vs) : ~PagemapReadable(vs[i].Start) => reads[i] = "none"
            /\ LET got == GetDirtyPagesWithReads(vs, maps, softDirty, reads)
               IN /\ dirtyPages' = got.pages
                  /\ retErr' = got.err
                  /\ pc' = IF got.err # "" THEN "Done" ELSE pc
                  /\ hist' = [hist EXCEPT !.reads = reads,
                                          !.cause = IF got.err # "" THEN "pagemap" ELSE @]
    /\ UNCHANGED <<targetVars, mainVars, callVars, noteVars, config, vmas, pass, vmaIdx, result,
                   bufferManager, mmapData, freezeVars, frozenThreads, finalVMAs, coreInfo, outFile>>

ScanNext ==
    \/ Discovery
    \/ PagemapScan
    \/ \E t \in Tids, a \in AllPages : TargetWrite(t, a)
    \/ \E t \in Tids : TargetGrowHeap(t)

ScanSpec == Init /\ [][ScanNext]_vars

\* C37: whatever the reads of the regions' page-map entries return, the
\* scan succeeds; a region whose read failed or came back short, also with
\* some but not all of its bytes, contributes no dirty page, and every other
\* region contributes all its soft-dirty pages.
C37_ShortPagemapReadNotFatal ==
    [][(hist.reads = <<>> /\ hist'.reads # <<>>) =>
          LET vs == convertVMAsToCopy(vmas)
          IN /\ retErr' = "" /\ pc' # "Done"
             /\ dirtyPages' =
                   {d \in [addr : AllPages, vma : {vs[i] : i \in 1 .. Len(vs)}] :
                       \E i \in 1 .. Len(vs) :
                          /\ vs[i] = d.vma
                          /\ hist'.reads[i] = "full"
                          /\ d.addr \in scanVMAForDirtyPages(vs[i], maps, softDirty)}
      ]_vars

\* ------------------------------------------------------------------------
\* internal/copy: the worker pool and the goroutines of copyAllPages.
\* ------------------------------------------------------------------------
\* Most workers of a pool.
MaxWorkers == 1

\* Most goroutines of copyAllPages (one per region).
MaxCopiers == 2

\* Most pages of the regions of one run, taken together.
MaxPages == 6

\* NewWorkerPool(w) and Start, with one goroutine of copyAllPages per region
\* about to run copyVMA: both channels are empty and have room for 2*w
\* elements, every worker is at the receive of its range loop.
PoolStarted(w, pages) ==
    [workers |-> w, jobs |-> <<>>, results |-> <<>>, jobsClosed |-> FALSE,
     resultsClosed |-> FALSE,
     worker |-> [i \in 1 .. w |-> [pc |-> "recv", job |-> <<>>]],
     copier |-> [c \in 1 .. Len(pages) |->
                    [pc |-> "submit", pages |-> pages[c], submitted |-> 0, collected |-> 0,
                     got |-> {}]],
     stop |-> "no"]

RECURSIVE SumOf(_)
SumOf(ns) == IF ns = <<>> THEN 0 ELSE Head(ns) + SumOf(Tail(ns))

WorkerPoolInit ==
    /\ InitState(1 .. MaxPassesFlag, {DefaultDirtyThresh}, {8192}, {mmapSize})
    /\ StartedRun
    /\ noteThreads = <<>>
    /\ auxvData = <<>>
    /\ notes = <<>>
    /\ noteIdx = 0
    /\ noteSeg = <<>>
    /\ noteErr = ""
    /\ segmentCount = 0
    /\ \E w \in 1 .. MaxWorkers, n \in 1 .. MaxCopiers :
         \E pages \in [1 .. n -> 1 .. MaxPages] :
            /\ SumOf(pages) <= MaxPages
            /\ workerPool = PoolStarted(w, pages)

\* Everything but the pool.
PoolUnchanged ==
    UNCHANGED <<targetVars, mainVars, callVars, pipelineVars, bufferManager, hist,
                noteThreads, auxvData, notes, noteIdx, noteSeg, noteErr, segmentCount>>

\* copyVMA, first loop: Submit one page job; wp.jobs <- job waits while the
\* channel holds 2*w jobs.  After the last page the goroutine collects.
Submit(c) ==
    /\ workerPool.copier[c].pc = "submit"
    /\ Len(workerPool.jobs) < 2 * workerPool.workers
    /\ LET n == workerPool.copier[c].submitted + 1
       IN workerPool' = [workerPool EXCEPT
             !.jobs = Append(@, <<c, n>>),
             !.copier[c].submitted = n,
             !.copier[c].pc = IF n = workerPool.copier[c].pages THEN "collect" ELSE "submit"]
    /\ PoolUnchanged

\* worker: for job := range wp.jobs.  The loop ends when the channel is
\* closed and empty.
workerReceive(i) ==
    /\ workerPool.worker[i].pc = "recv"
    /\ IF workerPool.jobs # <<>>
       THEN workerPool' = [workerPool EXCEPT
               !.jobs = Tail(@),
               !.worker[i] = [pc |-> "send", job |-> Head(workerPool.jobs)]]
       ELSE /\ workerPool.jobsClosed
            /\ workerPool' = [workerPool EXCEPT !.worker[i] = [pc |-> "exited", job |-> <<>>]]
    /\ PoolUnchanged

\* worker: wp.results <- wp.processJob(job) waits while the channel holds
\* 2*w results.
workerSend(i) ==
    /\ workerPool.worker[i].pc = "send"
    /\ Len(workerPool.results) < 2 * workerPool.workers
    /\ workerPool' = [workerPool EXCEPT
          !.results = Append(@, workerPool.worker[i].job),
          !.worker[i] = [pc |-> "recv", job |-> <<>>]]
    /\ PoolUnchanged

\* copyVMA, second loop: GetResult takes the next result of the shared
\* channel, whoever submitted its job; the goroutine returns after as many
\* results as it has pages.  got is the set of the jobs whose results it took.
GetResult(c) ==
    /\ workerPool.copier[c].pc = "collect"
    /\ workerPool.results # <<>>
    /\ workerPool' = [workerPool EXCEPT
          !.results = Tail(@),
          !.copier[c].got = @ \cup {Head(workerPool.results)},
          !.copier[c].collected = @ + 1,
          !.copier[c].pc = IF workerPool.copier[c].collected + 1 = workerPool.copier[c].pages
                           THEN "returned" ELSE "collect"]
    /\ PoolUnchanged

\* RunPreCopy's deferred Stop, run once copyAllPages has waited for all its
\* goroutines: close(wp.jobs), then wp.wg.Wait().
StopClose ==
    /\ workerPool.stop = "no"
    /\ \A c \in DOMAIN workerPool.copier : workerPool.copier[c].pc = "returned"
    /\ workerPool' = [workerPool EXCEPT !.jobsClosed = TRUE, !.stop = "waiting"]
    /\ PoolUnchanged

\* Stop: wp.wg.Wait() returns when every worker has exited; close(wp.results).
StopReturn ==
    /\ workerPool.stop = "waiting"
    /\ \A i \in DOMAIN workerPool.worker : workerPool.worker[i].pc = "exited"
    /\ workerPool' = [workerPool EXCEPT !.resultsClosed = TRUE, !.stop = "done"]
    /\ PoolUnchanged

WorkerPoolNext ==
    \/ \E c \in 1 .. MaxCopiers : c \in DOMAIN workerPool.copier /\ Submit(c)
    \/ \E c \in 1 .. MaxCopiers : c \in DOMAIN workerPool.copier /\ GetResult(c)
    \/ \E i \in 1 .. MaxWorkers : i \in DOMAIN workerPool.worker /\ workerReceive(i)
    \/ \E i \in 1 .. MaxWorkers : i \in DOMAIN workerPool.worker /\ workerSend(i)
    \/ StopClose
    \/ StopReturn

\* Every goroutine that can take a step eventually takes one.
WorkerPoolFairness ==
    /\ \A c \in 1 .. MaxCopiers :
          /\ WF_vars(c \in DOMAIN workerPool.copier /\ Submit(c))
          /\ WF_vars(c \in DOMAIN workerPool.copier /\ GetResult(c))
    /\ \A i \in 1 .. MaxWorkers :
          /\ WF_vars(i \in DOMAIN workerPool.worker /\ workerReceive(i))
          /\ WF_vars(i \in DOMAIN workerPool.worker /\ workerSend(i))
    /\ WF_vars(StopClose)
    /\ WF_vars(StopReturn)

WorkerPoolSpec == WorkerPoolInit /\ [][WorkerPoolNext]_vars /\ WorkerPoolFairness

\* The jobs submitted so far, and where each of them is.
SubmittedJobs ==
    UNION {{<<c, n>> : n \in 1 .. workerPool.copier[c].submitted} :
              c \in DOMAIN workerPool.copier}

PlacesOf(j) ==
    Cardinality({k \in DOMAIN workerPool.jobs : workerPool.jobs[k] = j})
    + Cardinality({i \in DOMAIN workerPool.worker : workerPool.worker[i].job = j})
    + Cardinality({k \in DOMAIN workerPool.results : workerPool.results[k] = j})
    + Cardinality({c \in DOMAIN workerPool.copier : j \in workerPool.copier[c].got})

\* C38: the worker-pool protocol is deadlock-free.  At every moment each
\* submitted job is in exactly one place (waiting in the jobs channel, held
\* by a worker, waiting in the results channel, or collected as a result),
\* so it yields exactly one result; and for every worker count and every
\* number of goroutines and pages, every goroutine of copyAllPages
\* eventually returns and Stop returns with all workers exited.
C38_WorkerPoolDeadlockFree ==
    /\ [](/\ \A j \in SubmittedJobs : PlacesOf(j) = 1
          /\ \A c \in DOMAIN workerPool.copier :
                Cardinality(workerPool.copier[c].got) = workerPool.copier[c].collected)
    /\ <>(/\ workerPool.stop = "done"
          /\ \A c \in DOMAIN workerPool.copier :
                /\ workerPool.copier[c].pc = "returned"
                /\ workerPool.copier[c].collected = workerPool.copier[c].pages
          /\ \A i \in DOMAIN workerPool.worker : workerPool.worker[i].pc = "exited")

====
